---- MODULE Spec2Model ----
(***************************************************************************)
(* A model of the gpgen workflow generator (pkg/generator, pkg/templates,   *)
(* pkg/manifest) and of its generate command: input resolution, input      *)
(* validation, step rendering, custom-step splicing, GenerateWorkflow,      *)
(* manifest validation and runGenerate.  Spec is GenerateWorkflow, phase by *)
(* phase; SpecRun is one run of the generate command on an output           *)
(* directory; SpecConcurrent is two GenerateWorkflow calls on one           *)
(* generator; SpecResolve, SpecSplice, SpecMatch, SpecPermissions,          *)
(* SpecValidate and SpecManifest call one function each on arguments drawn  *)
(* in their initial states, as the unit tests do.                           *)
(*                                                                         *)
(* Go maps are functions with a finite domain of keys.  A Go interface{}   *)
(* value is a record [kind, v, sub, scalars]: kind is the dynamic type, v  *)
(* the printed value, sub and scalars the keys of an object value that     *)
(* hold maps and scalars.  Strings the code computes over (step names,     *)
(* position directives) are sequences of one-character strings.            *)
(***************************************************************************)
EXTENDS Integers, Sequences, FiniteSets, TLC

VARIABLES
    manifest,      \* the *manifest.Manifest the call is made with
    environment,   \* the environment argument
    pc,            \* position of the running call
    inputs,        \* the effective inputs map of the call
    tmpl,          \* the template name loaded by GenerateWorkflow ("" = none)
    steps,         \* the []WorkflowStep of the call
    rendered,      \* number of template steps rendered (the length of the list spliced into)
    applied,       \* custom steps handed to applyCustomStep so far, in order
    prev,          \* the step list before the last applyCustomStep
    err,           \* the error returned, outermost message first (<<>> = nil)
    doc,           \* the returned document (<<>> = the empty string, else <<workflow>>)
    ret,           \* what a direct call of a function was given and returned (<<>> = none)
    templates,     \* tm.templates of the generator's TemplateManager: name -> the call that built the *Template (0 = an earlier call)
    calls,         \* the GenerateWorkflow calls running concurrently on one generator
    generateEnv,       \* --environment
    generateDryRun,    \* --dry-run
    generateOverwrite, \* --overwrite
    environments,  \* the environments slice of runGenerate
    envIndex,      \* the index in environments the loop of runGenerate is at (0 = not started)
    files          \* the output directory: workflow file name -> content

vars == <<manifest, environment, pc, inputs, tmpl, steps, rendered, applied, prev, err, doc, ret,
          templates, calls, generateEnv, generateDryRun, generateOverwrite, environments, envIndex, files>>

----------------------------------------------------------------------------
(* Bounds of the model *)

\* most keys in manifest.Spec.Inputs
MaxBaseInputs == 2
\* most keys in one environment's Inputs
MaxEnvInputs == 1
\* longest step list applyCustomStep is first called on
MaxSteps == 3
\* most custom steps applied one after the other
MaxApplied == 2
\* most custom steps in manifest.Spec.CustomSteps and in one environment
MaxCustom == 1
\* longest piece of a step name tried as a target of matchesStep
MaxTokenLen == 4
\* most keys in the inputs getRequiredPermissions is called with
MaxPermissionInputs == 2
\* most template inputs left out of the map ValidateInputs is called with
MaxDropped == 1
\* most keys added to or replaced in the map ValidateInputs is called with
MaxExtraInputs == 1

----------------------------------------------------------------------------
(* Go values *)

Str(s) == [kind |-> "string", v |-> s, sub |-> {}, scalars |-> {}]
Bool(b) == [kind |-> "bool", v |-> IF b THEN "true" ELSE "false", sub |-> {}, scalars |-> {}]
\* a typed Go struct (models.SecurityConfig, models.ContainerConfig)
Struct(name) == [kind |-> "struct", v |-> name, sub |-> {}, scalars |-> {}]
\* a map[string]interface{} as YAML decodes it: nested = the keys that hold
\* maps, leaves = the keys that hold scalars
Map(name, nested, leaves) == [kind |-> "map", v |-> name, sub |-> nested, scalars |-> leaves]
\* an int or float64, n its printed form
Num(n) == [kind |-> "number", v |-> n, sub |-> {}, scalars |-> {}]
\* a []interface{}
Arr(name) == [kind |-> "array", v |-> name, sub |-> {}, scalars |-> {}]
\* the nil interface value
Nil == [kind |-> "nil", v |-> "", sub |-> {}, scalars |-> {}]

EmptyMap == [k \in {} |-> Nil]

\* overlay: for k, v := range over { m[k] = v }
Overlay(m, over) ==
    [k \in (DOMAIN m) \cup (DOMAIN over) |-> IF k \in DOMAIN over THEN over[k] ELSE m[k]]

----------------------------------------------------------------------------
(* Template catalog: the input definitions of the built-in templates *)

Input(type, default, required, options) ==
    [Type |-> type, Default |-> default, Required |-> required, Options |-> options]

createLanguageVersionInput(defaultVersion, versions) ==
    Input("string", Str(defaultVersion), TRUE, versions)

createPackageManagerInput(defaultManager, options) ==
    Input("string", Str(defaultManager), TRUE, options)

createCommandInput(defaultCmd, required) ==
    Input("string", Str(defaultCmd), required, {})

createSecurityInputs ==
    [k \in {"security"} |-> Input("object", Struct("DefaultSecurityConfig"), FALSE, {})]

createContainerInputs ==
    [k \in {"container"} |-> Input("object", Struct("DefaultContainerConfig"), FALSE, {})]

mergeInputs(a, b, c) == Overlay(Overlay(a, b), c)

NodeAppInputs ==
    mergeInputs(
        [k \in {"nodeVersion", "packageManager", "testCommand", "buildCommand"} |->
            CASE k = "nodeVersion" -> createLanguageVersionInput("18", {"16", "18", "20", "22"})
              [] k = "packageManager" -> createPackageManagerInput("npm", {"npm", "yarn", "pnpm"})
              [] k = "testCommand" -> createCommandInput("npm test", TRUE)
              [] k = "buildCommand" -> createCommandInput("npm run build", FALSE)],
        createSecurityInputs, createContainerInputs)

GoServiceInputs ==
    mergeInputs(
        [k \in {"goVersion", "testCommand", "buildCommand", "platforms"} |->
            CASE k = "goVersion" -> createLanguageVersionInput("1.21", {"1.21", "1.22", "1.23", "1.24"})
              [] k = "testCommand" -> createCommandInput("go test ./...", TRUE)
              [] k = "buildCommand" -> createCommandInput("go build -o bin/service ./cmd/service", TRUE)
              [] k = "platforms" -> Input("string", Str("linux/amd64,darwin/amd64"), FALSE, {})],
        createSecurityInputs, createContainerInputs)

PythonAppInputs ==
    mergeInputs(
        [k \in {"pythonVersion", "packageManager", "testCommand", "lintCommand", "requirements"} |->
            CASE k = "pythonVersion" -> createLanguageVersionInput("3.11", {"3.9", "3.10", "3.11", "3.12"})
              [] k = "packageManager" -> createPackageManagerInput("pip", {"pip", "poetry", "pipenv"})
              [] k = "testCommand" -> createCommandInput("pytest", TRUE)
              [] k = "lintCommand" -> createCommandInput("flake8", FALSE)
              [] k = "requirements" -> Input("string", Str("requirements.txt"), TRUE, {})],
        createSecurityInputs, createContainerInputs)

\* the names getBuiltinTemplate knows
BuiltinTemplates == {"node-app", "go-service", "python-app"}

\* LoadTemplate(name) succeeds
LoadTemplateOk(name) == name \in BuiltinTemplates

\* a Go map after m[name] = p (tm.templates[name] = template of call p, or
\* the output directory after a file is written)
Stored(cache, name, p) ==
    [n \in DOMAIN cache \cup {name} |-> IF n = name THEN p ELSE cache[n]]

\* tm.templates after LoadTemplate(name) run by call p alone: a cached or
\* unknown template leaves it as it is
LoadTemplateCache(cache, name, p) ==
    IF name \in DOMAIN cache \/ ~LoadTemplateOk(name) THEN cache ELSE Stored(cache, name, p)

TemplateInputs(name) ==
    CASE name = "node-app" -> NodeAppInputs
      [] name = "go-service" -> GoServiceInputs
      [] name = "python-app" -> PythonAppInputs

----------------------------------------------------------------------------
(* Input resolution *)

\* mutant: the key is written whether or not it exists
SetIfAbsent_Always(m, k, v) ==
    Overlay(m, [x \in {k} |-> v])

\* if _, exists := inputs[k]; !exists { inputs[k] = v }
SetIfAbsent(m, k, v) ==
    IF k \in DOMAIN m THEN m ELSE Overlay(m, [x \in {k} |-> v])

\* mutant: default/staging also inject containerBuildOnProduction = false
addEventDrivenContext_FalseOnDefault(in, env) ==
    CASE env \in {"default", "staging"} ->
            SetIfAbsent(
                SetIfAbsent(
                    SetIfAbsent(in, "containerBuildOnPR", Bool(TRUE)),
                    "containerBuildOnProduction", Bool(FALSE)),
                "containerPushOnProduction", Bool(FALSE))
      [] env = "production" ->
            SetIfAbsent(
                SetIfAbsent(
                    SetIfAbsent(in, "containerBuildOnPR", Bool(FALSE)),
                    "containerBuildOnProduction", Bool(TRUE)),
                "containerPushOnProduction", Bool(TRUE))
      [] OTHER -> in

addEventDrivenContext(in, env) ==
    CASE env \in {"default", "staging"} ->
            SetIfAbsent(
                SetIfAbsent(in, "containerBuildOnPR", Bool(TRUE)),
                "containerPushOnProduction", Bool(FALSE))
      [] env = "production" ->
            SetIfAbsent(
                SetIfAbsent(
                    SetIfAbsent(in, "containerBuildOnPR", Bool(FALSE)),
                    "containerBuildOnProduction", Bool(TRUE)),
                "containerPushOnProduction", Bool(TRUE))
      [] OTHER -> in

\* mutant: an unknown template falls back to the node-app defaults
TemplateDefaults_Fallback(name) ==
    LET defs == IF LoadTemplateOk(name) THEN TemplateInputs(name) ELSE NodeAppInputs
        have == {k \in DOMAIN defs : defs[k].Default # Nil}
    IN  [k \in have |-> defs[k].Default]

\* the defaults layer: empty when the template cannot be loaded
TemplateDefaults(name) ==
    IF LoadTemplateOk(name)
    THEN LET defs == TemplateInputs(name)
             have == {k \in DOMAIN defs : defs[k].Default # Nil}
         IN  [k \in have |-> defs[k].Default]
    ELSE EmptyMap

\* mutant: the environment != "default" test is dropped
EnvironmentInputs_NoDefaultGuard(m, env) ==
    IF env \in DOMAIN m.Environments
    THEN m.Environments[env].Inputs
    ELSE EmptyMap

\* the environment layer: empty for "default" and for undefined environments
EnvironmentInputs(m, env) ==
    IF env # "default" /\ env \in DOMAIN m.Environments
    THEN m.Environments[env].Inputs
    ELSE EmptyMap

\* mutant: the template defaults are written after the base inputs
getEffectiveInputs_DefaultsLast(m, env) ==
    addEventDrivenContext(
        Overlay(Overlay(m.Inputs, TemplateDefaults(m.Template)), EnvironmentInputs(m, env)),
        env)

getEffectiveInputs(m, env) ==
    addEventDrivenContext(
        Overlay(Overlay(TemplateDefaults(m.Template), m.Inputs), EnvironmentInputs(m, env)),
        env)

----------------------------------------------------------------------------
(* Strings the splicer computes over, as sequences of characters *)

\* unicode.ToLower on the letters step names use
LowerChar(c) ==
    CASE c = "A" -> "a" [] c = "B" -> "b" [] c = "C" -> "c" [] c = "D" -> "d"
      [] c = "E" -> "e" [] c = "F" -> "f" [] c = "G" -> "g" [] c = "H" -> "h"
      [] c = "I" -> "i" [] c = "J" -> "j" [] c = "K" -> "k" [] c = "L" -> "l"
      [] c = "M" -> "m" [] c = "N" -> "n" [] c = "O" -> "o" [] c = "P" -> "p"
      [] c = "Q" -> "q" [] c = "R" -> "r" [] c = "S" -> "s" [] c = "T" -> "t"
      [] c = "U" -> "u" [] c = "V" -> "v" [] c = "W" -> "w" [] c = "X" -> "x"
      [] c = "Y" -> "y" [] c = "Z" -> "z" [] OTHER -> c

\* strings.ToLower
ToLower(s) == [i \in 1..Len(s) |-> LowerChar(s[i])]

\* strings.Index(s, sep) for a one-character sep: 0 when absent, else the 1-based index
IndexOf(s, sep) ==
    IF \E i \in 1..Len(s) : s[i] = sep
    THEN CHOOSE i \in 1..Len(s) : s[i] = sep /\ \A j \in 1..(i - 1) : s[j] # sep
    ELSE 0

\* strings.SplitN(s, sep, 2)
SplitN2(s, sep) ==
    LET i == IndexOf(s, sep)
    IN  IF i = 0 THEN <<s>> ELSE <<SubSeq(s, 1, i - 1), SubSeq(s, i + 1, Len(s))>>

\* strings.Fields: the maximal runs of non-space characters
RECURSIVE Fields(_)
Fields(s) ==
    IF s = <<>> THEN <<>>
    ELSE IF s[1] = " " THEN Fields(Tail(s))
    ELSE LET sp == IndexOf(s, " ")
         IN  IF sp = 0 THEN <<s>>
             ELSE <<SubSeq(s, 1, sp - 1)>> \o Fields(SubSeq(s, sp + 1, Len(s)))

\* strings.TrimSuffix(w, "s")
TrimSuffixS(w) ==
    IF Len(w) > 0 /\ w[Len(w)] = "s" THEN SubSeq(w, 1, Len(w) - 1) ELSE w

\* mutant: only a prefix counts
Contains_Prefix(w, t) ==
    Len(w) >= Len(t) /\ SubSeq(w, 1, Len(t)) = t

\* strings.Contains(w, t)
Contains(w, t) ==
    \E i \in 1..(Len(w) - Len(t) + 1) : SubSeq(w, i, i + Len(t) - 1) = t

----------------------------------------------------------------------------
(* Steps *)

\* WorkflowStep; With, Env and If are carried along unread and are left out
WorkflowStep(name, uses, run, timeout) ==
    [Name |-> name, Uses |-> uses, Run |-> run, TimeoutMins |-> timeout]

\* manifest.CustomStep; TimeoutMinutes 0 stands for the nil pointer
CustomStep(name, position, uses, run) ==
    [Name |-> name, Position |-> position, Uses |-> uses, Run |-> run, TimeoutMinutes |-> 0]

\* errors: a chain of messages, the outermost first; arg is the text the
\* message is formatted with
Error(msg, arg) == <<[msg |-> msg, arg |-> arg]>>

\* fmt.Errorf("msg ...: %w", err)
Wrap(msg, arg, e) == Error(msg, arg) \o e

Result(st, e) == [steps |-> st, err |-> e]

\* (WorkflowStep, error)
StepResult(step, e) == [step |-> step, err |-> e]

\* the special-case table of matchesStep
stepMappings ==
    [n \in {<<"r", "u", "n", " ", "t", "e", "s", "t", "s">>, <<"b", "u", "i", "l", "d", " ", "a", "p", "p", "l", "i", "c", "a", "t", "i", "o", "n">>, <<"s", "e", "t", "u", "p", " ", "n", "o", "d", "e", ".", "j", "s">>, <<"i", "n", "s", "t", "a", "l", "l", " ", "d", "e", "p", "e", "n", "d", "e", "n", "c", "i", "e", "s">>, <<"c", "h", "e", "c", "k", "o", "u", "t", " ", "c", "o", "d", "e">>} |->
        CASE n = <<"r", "u", "n", " ", "t", "e", "s", "t", "s">> -> {<<"t", "e", "s", "t">>, <<"t", "e", "s", "t", "s">>}
          [] n = <<"b", "u", "i", "l", "d", " ", "a", "p", "p", "l", "i", "c", "a", "t", "i", "o", "n">> -> {<<"b", "u", "i", "l", "d">>}
          [] n = <<"s", "e", "t", "u", "p", " ", "n", "o", "d", "e", ".", "j", "s">> -> {<<"s", "e", "t", "u", "p", "-", "n", "o", "d", "e">>, <<"n", "o", "d", "e">>}
          [] n = <<"i", "n", "s", "t", "a", "l", "l", " ", "d", "e", "p", "e", "n", "d", "e", "n", "c", "i", "e", "s">> -> {<<"i", "n", "s", "t", "a", "l", "l">>, <<"d", "e", "p", "e", "n", "d", "e", "n", "c", "i", "e", "s">>}
          [] n = <<"c", "h", "e", "c", "k", "o", "u", "t", " ", "c", "o", "d", "e">> -> {<<"c", "h", "e", "c", "k", "o", "u", "t">>}]

\* mutant: a step of the table that misses its aliases falls through to the words
matchesStep_FallThrough(step, target) ==
    LET stepName == ToLower(step.Name)
        targetName == ToLower(target)
        stepWords == Fields(stepName)
    IN  \/ stepName \in DOMAIN stepMappings /\ targetName \in stepMappings[stepName]
        \/ \E i \in 1..Len(stepWords) :
                LET word == TrimSuffixS(stepWords[i])
                IN  \/ word = targetName
                    \/ (Len(targetName) >= 4 /\ Contains(word, targetName))

matchesStep(step, target) ==
    LET stepName == ToLower(step.Name)
        targetName == ToLower(target)
        stepWords == Fields(stepName)
    IN  IF stepName \in DOMAIN stepMappings
        THEN targetName \in stepMappings[stepName]
        ELSE \E i \in 1..Len(stepWords) :
                LET word == TrimSuffixS(stepWords[i])
                IN  \/ word = targetName
                    \/ (Len(targetName) >= 4 /\ Contains(word, targetName))

\* mutant: the last step that matches is taken
FirstMatch_Last(st, targetStep) ==
    IF \E i \in 1..Len(st) : matchesStep(st[i], targetStep)
    THEN CHOOSE i \in 1..Len(st) :
            /\ matchesStep(st[i], targetStep)
            /\ \A j \in (i + 1)..Len(st) : ~matchesStep(st[j], targetStep)
    ELSE 0

\* the index the range loop stops at: the first step that matches, 0 if none
FirstMatch(st, targetStep) ==
    IF \E i \in 1..Len(st) : matchesStep(st[i], targetStep)
    THEN CHOOSE i \in 1..Len(st) :
            /\ matchesStep(st[i], targetStep)
            /\ \A j \in 1..(i - 1) : ~matchesStep(st[j], targetStep)
    ELSE 0

\* mutant: the error does not carry the target
NotFound_NoTarget(targetStep) == Result(<<>>, Error("target step not found", <<>>))

NotFound(targetStep) == Result(<<>>, Error("target step not found", targetStep))

\* mutant: the new step goes after the match
insertStepBefore_AfterMatch(st, newStep, targetStep) ==
    LET i == FirstMatch(st, targetStep)
    IN  IF i = 0 THEN NotFound(targetStep)
        ELSE Result(SubSeq(st, 1, i) \o <<newStep>> \o SubSeq(st, i + 1, Len(st)), <<>>)

insertStepBefore(st, newStep, targetStep) ==
    LET i == FirstMatch(st, targetStep)
    IN  IF i = 0 THEN NotFound(targetStep)
        ELSE Result(SubSeq(st, 1, i - 1) \o <<newStep>> \o SubSeq(st, i, Len(st)), <<>>)

\* mutant: the step after the match is overwritten, the list does not grow
insertStepAfter_NoGrow(st, newStep, targetStep) ==
    LET i == FirstMatch(st, targetStep)
    IN  IF i = 0 THEN NotFound(targetStep)
        ELSE Result(SubSeq(st, 1, i) \o <<newStep>> \o SubSeq(st, i + 2, Len(st)), <<>>)

insertStepAfter(st, newStep, targetStep) ==
    LET i == FirstMatch(st, targetStep)
    IN  IF i = 0 THEN NotFound(targetStep)
        ELSE Result(SubSeq(st, 1, i) \o <<newStep>> \o SubSeq(st, i + 1, Len(st)), <<>>)

\* mutant: the first element is overwritten, not the matched one
replaceStep_FirstElement(st, newStep, targetStep) ==
    LET i == FirstMatch(st, targetStep)
    IN  IF i = 0 THEN NotFound(targetStep)
        ELSE Result([st EXCEPT ![1] = newStep], <<>>)

replaceStep(st, newStep, targetStep) ==
    LET i == FirstMatch(st, targetStep)
    IN  IF i = 0 THEN NotFound(targetStep)
        ELSE Result([st EXCEPT ![i] = newStep], <<>>)

\* the WorkflowStep applyCustomStep builds from the custom step
NewStep(customStep) ==
    WorkflowStep(customStep.Name, customStep.Uses, customStep.Run, customStep.TimeoutMinutes)

\* mutant: a step without position goes to the front
applyCustomStep_Prepend(st, customStep) ==
    LET newStep == NewStep(customStep)
        position == customStep.Position
        parts == SplitN2(position, ":")
    IN  IF position = <<>> THEN Result(<<newStep>> \o st, <<>>)
        ELSE IF Len(parts) # 2 THEN Result(<<>>, Error("invalid position format", position))
        ELSE CASE parts[1] = <<"b", "e", "f", "o", "r", "e">> -> insertStepBefore(st, newStep, parts[2])
               [] parts[1] = <<"a", "f", "t", "e", "r">> -> insertStepAfter(st, newStep, parts[2])
               [] parts[1] = <<"r", "e", "p", "l", "a", "c", "e">> -> replaceStep(st, newStep, parts[2])
               [] OTHER -> Result(<<>>, Error("unknown position directive", parts[1]))

\* mutant: an unknown directive is reported as a malformed position
applyCustomStep_UnknownAsInvalid(st, customStep) ==
    LET newStep == NewStep(customStep)
        position == customStep.Position
        parts == SplitN2(position, ":")
    IN  IF position = <<>> THEN Result(Append(st, newStep), <<>>)
        ELSE IF Len(parts) # 2 THEN Result(<<>>, Error("invalid position format", position))
        ELSE CASE parts[1] = <<"b", "e", "f", "o", "r", "e">> -> insertStepBefore(st, newStep, parts[2])
               [] parts[1] = <<"a", "f", "t", "e", "r">> -> insertStepAfter(st, newStep, parts[2])
               [] parts[1] = <<"r", "e", "p", "l", "a", "c", "e">> -> replaceStep(st, newStep, parts[2])
               [] OTHER -> Result(<<>>, Error("invalid position format", position))

applyCustomStep(st, customStep) ==
    LET newStep == NewStep(customStep)
        position == customStep.Position
        parts == SplitN2(position, ":")
    IN  IF position = <<>> THEN Result(Append(st, newStep), <<>>)
        ELSE IF Len(parts) # 2 THEN Result(<<>>, Error("invalid position format", position))
        ELSE CASE parts[1] = <<"b", "e", "f", "o", "r", "e">> -> insertStepBefore(st, newStep, parts[2])
               [] parts[1] = <<"a", "f", "t", "e", "r">> -> insertStepAfter(st, newStep, parts[2])
               [] parts[1] = <<"r", "e", "p", "l", "a", "c", "e">> -> replaceStep(st, newStep, parts[2])
               [] OTHER -> Result(<<>>, Error("unknown position directive", parts[1]))

\* mutant: every successful call writes its result into the list it was given
applyCustomStepWrites_Always(st, customStep) ==
    LET r == applyCustomStep(st, customStep)
    IN  IF r.err = <<>> THEN SubSeq(r.steps, 1, Len(st)) ELSE st

\* the list the caller passed, as its slice shows it after the call.
\* replaceStep assigns steps[i] = newStep in the array the caller's slice
\* points to; insertStepBefore and insertStepAfter fill a slice they make,
\* append writes at most behind the caller's length, and the error returns
\* come before any write.
applyCustomStepWrites(st, customStep) ==
    LET parts == SplitN2(customStep.Position, ":")
    IN  IF /\ customStep.Position # <<>>
           /\ Len(parts) = 2
           /\ parts[1] = <<"r", "e", "p", "l", "a", "c", "e">>
           /\ FirstMatch(st, parts[2]) # 0
        THEN [st EXCEPT ![FirstMatch(st, parts[2])] = NewStep(customStep)]
        ELSE st

----------------------------------------------------------------------------
(* Input validation *)

\* the type switch of ValidateInputValue: TRUE when the value has the wrong type
WrongType(value, def) ==
    CASE def.Type = "string" -> value.kind # "string"
      [] def.Type = "number" -> value.kind # "number"
      [] def.Type = "boolean" -> value.kind # "bool"
      [] def.Type = "array" -> value.kind # "array"
      [] OTHER -> FALSE

\* mutant: the options are not looked at
ValidateInputValue_NoOptions(name, value, def) ==
    IF WrongType(value, def)
    THEN Error(CASE def.Type = "string" -> "must be a string"
                 [] def.Type = "number" -> "must be a number"
                 [] def.Type = "boolean" -> "must be a boolean"
                 [] OTHER -> "must be an array", name)
    ELSE <<>>

\* ValidateInputValue: the error for one provided input, <<>> when it is valid;
\* value.v is the value's fmt.Sprintf("%v") form
ValidateInputValue(name, value, def) ==
    IF WrongType(value, def)
    THEN Error(CASE def.Type = "string" -> "must be a string"
                 [] def.Type = "number" -> "must be a number"
                 [] def.Type = "boolean" -> "must be a boolean"
                 [] OTHER -> "must be an array", name)
    ELSE IF def.Options # {} /\ value.v \notin def.Options
    THEN Error("must be one of", name)
    ELSE <<>>

\* ValidateInputs: the errors the loop over template.Inputs can return.  The
\* loop returns at the first failing input and Go fixes no order on the
\* map's keys, so each failing input's error is a possible result; the empty
\* set is the nil result.
ValidateInputs(templateName, in) ==
    IF ~LoadTemplateOk(templateName)
    THEN {Wrap("failed to load template", templateName, Error("unknown template", templateName))}
    ELSE LET defs == TemplateInputs(templateName)
         IN  {Error("required input not provided", k) :
                    k \in {x \in DOMAIN defs : defs[x].Required /\ x \notin DOMAIN in}}
             \cup
             {ValidateInputValue(k, in[k], defs[k]) :
                    k \in {x \in (DOMAIN defs) \cap (DOMAIN in) :
                                ValidateInputValue(x, in[x], defs[x]) # <<>>}}

----------------------------------------------------------------------------
(* Template steps and their rendering *)

\* a template step: Run names how the run command is rendered ("" = no run
\* command), With maps each with-key to the input paths its value reads, If
\* holds the input paths of the condition
Step(id, name, uses, run, with, if) ==
    [ID |-> id, Name |-> name, Uses |-> uses, Run |-> run, With |-> with, If |-> if]

NoWith == [k \in {} |-> {}]

createCheckoutStep ==
    Step("checkout", <<"C", "h", "e", "c", "k", "o", "u", "t", " ", "c", "o", "d", "e">>, "actions/checkout@v4", "", NoWith, {})

TrivyScanCondition == {<<"security", "trivy", "enabled">>}

BuildCondition ==
    {<<"container", "build", "alwaysBuild">>, <<"container", "build", "onPR">>,
     <<"container", "build", "onProduction">>, <<"container", "enabled">>}

PushCondition ==
    {<<"container", "push", "alwaysPush">>, <<"container", "push", "onProduction">>,
     <<"container", "enabled">>, <<"container", "push", "enabled">>}

createSecuritySteps ==
    <<Step("security-scan", <<"R", "u", "n", " ", "T", "r", "i", "v", "y", " ", "v", "u", "l", "n", "e", "r", "a", "b", "i", "l", "i", "t", "y", " ", "s", "c", "a", "n", "n", "e", "r">>,
           "aquasecurity/trivy-action@master", "",
           [k \in {"scan-type", "scan-ref", "format", "output", "severity", "exit-code"} |->
                IF k = "severity" THEN {<<"security", "trivy", "severity">>} ELSE {}],
           TrivyScanCondition),
      Step("upload-sarif", <<"U", "p", "l", "o", "a", "d", " ", "T", "r", "i", "v", "y", " ", "s", "c", "a", "n", " ", "r", "e", "s", "u", "l", "t", "s", " ", "t", "o", " ", "G", "i", "t", "H", "u", "b", " ", "S", "e", "c", "u", "r", "i", "t", "y", " ", "t", "a", "b">>,
           "github/codeql-action/upload-sarif@v3", "",
           [k \in {"sarif_file"} |-> {}],
           TrivyScanCondition)>>

createContainerSteps ==
    <<Step("setup-docker-buildx", <<"S", "e", "t", " ", "u", "p", " ", "D", "o", "c", "k", "e", "r", " ", "B", "u", "i", "l", "d", "x">>,
           "docker/setup-buildx-action@v3", "", NoWith, BuildCondition),
      Step("login-registry", <<"L", "o", "g", " ", "i", "n", " ", "t", "o", " ", "C", "o", "n", "t", "a", "i", "n", "e", "r", " ", "R", "e", "g", "i", "s", "t", "r", "y">>,
           "docker/login-action@v3", "",
           [k \in {"registry", "username", "password"} |->
                IF k = "registry" THEN {<<"container", "registry">>} ELSE {}],
           PushCondition),
      Step("build-and-push", <<"B", "u", "i", "l", "d", " ", "a", "n", "d", " ", "p", "u", "s", "h", " ", "c", "o", "n", "t", "a", "i", "n", "e", "r", " ", "i", "m", "a", "g", "e">>,
           "docker/build-push-action@v5", "",
           [k \in {"context", "file", "push", "tags", "build-args", "cache-from", "cache-to"} |->
                CASE k = "context" -> {<<"container", "buildContext">>}
                  [] k = "file" -> {<<"container", "dockerfile">>}
                  [] k = "push" -> {<<"container", "push", "enabled">>}
                  [] k = "tags" -> {<<"container", "registry">>, <<"container", "imageName">>,
                                    <<"container", "imageTag">>}
                  [] k = "build-args" -> {<<"container", "buildArgs">>}
                  [] OTHER -> {}],
           BuildCondition)>>

NodeAppSteps ==
    <<createCheckoutStep,
      Step("setup-node", <<"S", "e", "t", "u", "p", " ", "N", "o", "d", "e", ".", "j", "s">>, "actions/setup-node@v4", "",
           [k \in {"node-version", "cache"} |->
                IF k = "cache" THEN {<<"packageManager">>} ELSE {<<"nodeVersion">>}], {}),
      Step("install", <<"I", "n", "s", "t", "a", "l", "l", " ", "d", "e", "p", "e", "n", "d", "e", "n", "c", "i", "e", "s">>, "", "node-install", NoWith, {}),
      Step("test", <<"R", "u", "n", " ", "t", "e", "s", "t", "s">>, "", "testCommand", NoWith, {}),
      Step("build", <<"B", "u", "i", "l", "d", " ", "a", "p", "p", "l", "i", "c", "a", "t", "i", "o", "n">>, "", "buildCommand", NoWith, {<<"buildCommand">>})>>
    \o createSecuritySteps \o createContainerSteps

GoServiceSteps ==
    <<createCheckoutStep,
      Step("setup-go", <<"S", "e", "t", "u", "p", " ", "G", "o">>, "actions/setup-go@v4", "",
           [k \in {"go-version", "cache"} |->
                IF k = "cache" THEN {} ELSE {<<"goVersion">>}], {}),
      Step("test", <<"R", "u", "n", " ", "t", "e", "s", "t", "s">>, "", "testCommand", NoWith, {}),
      Step("build", <<"B", "u", "i", "l", "d", " ", "s", "e", "r", "v", "i", "c", "e">>, "", "buildCommand", NoWith, {})>>
    \o createSecuritySteps \o createContainerSteps

PythonAppSteps ==
    <<createCheckoutStep,
      Step("setup-python", <<"S", "e", "t", "u", "p", " ", "P", "y", "t", "h", "o", "n">>, "actions/setup-python@v4", "",
           [k \in {"python-version", "cache"} |->
                IF k = "cache" THEN {<<"packageManager">>} ELSE {<<"pythonVersion">>}], {}),
      Step("install", <<"I", "n", "s", "t", "a", "l", "l", " ", "d", "e", "p", "e", "n", "d", "e", "n", "c", "i", "e", "s">>, "", "python-install", NoWith, {}),
      Step("lint", <<"R", "u", "n", " ", "l", "i", "n", "t", "i", "n", "g">>, "", "lintCommand", NoWith, {<<"lintCommand">>}),
      Step("test", <<"R", "u", "n", " ", "t", "e", "s", "t", "s">>, "", "testCommand", NoWith, {})>>
    \o createSecuritySteps \o createContainerSteps

TemplateSteps(name) ==
    CASE name = "node-app" -> NodeAppSteps
      [] name = "go-service" -> GoServiceSteps
      [] name = "python-app" -> PythonAppSteps

\* text/template's evaluation of {{ .Inputs.a.b.c }} returns no error: a key
\* missing from a map gives the invalid value, which further fields leave
\* invalid and which prints as "<no value>"; a field cannot be taken of a
\* scalar, of nil, or of a Go struct by its lowercase yaml name
EvalOk(in, path) ==
    \/ Len(path) = 1
    \/ path[1] \notin DOMAIN in
    \/ /\ in[path[1]].kind = "map"
       /\ Len(path) = 3 => path[2] \notin in[path[1]].scalars

\* the printed form of a top-level input
Printed(in, k) == IF k \in DOMAIN in THEN in[k].v ELSE "<no value>"

\* the run command can be rendered: eq compares packageManager with a string
RunOk(in, run) ==
    run \in {"node-install", "python-install"} =>
        ("packageManager" \in DOMAIN in /\ in["packageManager"].kind = "string")

\* substituteTemplate on the run command
RenderRun(in, run) ==
    CASE run = "" -> ""
      [] run = "node-install" ->
            Printed(in, "packageManager") \o
                (IF Printed(in, "packageManager") = "npm" THEN " ci" ELSE " install --frozen-lockfile")
      [] run = "python-install" ->
            IF Printed(in, "packageManager") = "pip"
            THEN "pip install -r " \o Printed(in, "requirements")
            ELSE IF Printed(in, "packageManager") = "poetry" THEN "poetry install"
            ELSE "pipenv install"
      [] OTHER -> Printed(in, run)

\* mutant: only the with value visited first is rendered
processTemplateStep_FirstWith(templateStep, in) ==
    LET step == WorkflowStep(templateStep.Name, templateStep.Uses, "", 0)
    IN  IF ~RunOk(in, templateStep.Run)
        THEN {StepResult(step, Error("failed to substitute run command", templateStep.ID))}
        ELSE IF DOMAIN templateStep.With # {}
        THEN {IF \E path \in templateStep.With[k] : ~EvalOk(in, path)
              THEN StepResult(step, Error("failed to substitute with parameter", k))
              ELSE StepResult([step EXCEPT !.Run = RenderRun(in, templateStep.Run)], <<>>)
                : k \in DOMAIN templateStep.With}
        ELSE IF \E path \in templateStep.If : ~EvalOk(in, path)
        THEN {StepResult(step, Error("failed to substitute if condition", templateStep.ID))}
        ELSE {StepResult([step EXCEPT !.Run = RenderRun(in, templateStep.Run)], <<>>)}

\* processTemplateStep: the results it can return.  The run command is
\* rendered first, then the with values in the map's iteration order (any
\* failing key can be the one reported), then the if condition.
processTemplateStep(templateStep, in) ==
    LET step == WorkflowStep(templateStep.Name, templateStep.Uses, "", 0)
        badWith == {k \in DOMAIN templateStep.With :
                        \E path \in templateStep.With[k] : ~EvalOk(in, path)}
    IN  IF ~RunOk(in, templateStep.Run)
        THEN {StepResult(step, Error("failed to substitute run command", templateStep.ID))}
        ELSE IF badWith # {}
        THEN {StepResult(step, Error("failed to substitute with parameter", k)) : k \in badWith}
        ELSE IF \E path \in templateStep.If : ~EvalOk(in, path)
        THEN {StepResult(step, Error("failed to substitute if condition", templateStep.ID))}
        ELSE {StepResult([step EXCEPT !.Run = RenderRun(in, templateStep.Run)], <<>>)}

\* the loop of generateSteps over tmpl.Steps: the results it can end with,
\* each the steps rendered so far and the error that stopped it (<<>> = none)
RECURSIVE renderSteps(_, _, _)
renderSteps(templateSteps, in, done) ==
    IF templateSteps = <<>> THEN {Result(done, <<>>)}
    ELSE UNION {
            IF r.err # <<>>
            THEN {Result(done, Wrap("failed to process template step", Head(templateSteps).ID, r.err))}
            ELSE renderSteps(Tail(templateSteps), in, Append(done, r.step))
            : r \in processTemplateStep(Head(templateSteps), in)}

----------------------------------------------------------------------------
(* Workflow assembly *)

\* name := m.Metadata.Name reads through the pointer: defined for a manifest
\* that has a metadata section
getWorkflowName(m, env) ==
    LET name == m.Metadata[1].Name
    IN  IF env # "default" THEN name \o " (" \o env \o ")" ELSE name

\* the trigger names getWorkflowTriggers sets, each with its branch/tag/type list
getWorkflowTriggers(env) ==
    CASE env \in {"default", "staging"} ->
            [t \in {"push", "pull_request"} |->
                IF t = "push" THEN <<"branches", "main", "develop">> ELSE <<"branches", "main">>]
      [] env = "production" ->
            [t \in {"push", "release"} |->
                IF t = "push" THEN <<"tags", "v*">> ELSE <<"types", "published">>]
      [] OTHER -> [t \in {"push"} |-> <<"branches", "main">>]

\* mutant: the value's printed form is compared, the type is not asserted
IsTrueBool_Printed(in, key) == key \in DOMAIN in /\ in[key].v = "true"

\* enabled, ok := inputs[key].(bool); ok && enabled
IsTrueBool(in, key) == key \in DOMAIN in /\ in[key] = Bool(TRUE)

getRequiredPermissions(in) ==
    LET trivy == IF IsTrueBool(in, "trivyScanEnabled")
                 THEN [p \in {"security-events", "contents"} |->
                            IF p = "contents" THEN "read" ELSE "write"]
                 ELSE [p \in {} |-> ""]
    IN  IF IsTrueBool(in, "containerEnabled")
        THEN [p \in (DOMAIN trivy) \cup {"packages", "contents"} |->
                    IF p \in DOMAIN trivy THEN trivy[p]
                    ELSE IF p = "packages" THEN "write" ELSE "read"]
        ELSE trivy

\* the GitHubActionsWorkflow handed to the YAML encoder
Workflow(m, env, in, st) ==
    [Name |-> getWorkflowName(m, env),
     On |-> getWorkflowTriggers(env),
     RunsOn |-> "ubuntu-latest",
     Permissions |-> getRequiredPermissions(in),
     Steps |-> st]

----------------------------------------------------------------------------
(* Manifests and environment names the resolver is called with *)

TemplateNames == BuiltinTemplates \cup {"nonexistent-template"}

EnvNames == {"default", "staging", "production", "dev"}

\* environment arguments: the definable names and one no manifest defines
CallEnvs == EnvNames \cup {"qa"}

ResolveKeys ==
    {"testCommand", "containerBuildOnPR", "containerBuildOnProduction",
     "containerPushOnProduction"}

ResolveValues == {Str("custom"), Bool(TRUE), Bool(FALSE)}

\* the maps with at most n keys
InputMaps(keys, values, n) ==
    UNION {[d -> values] : d \in {s \in SUBSET keys : Cardinality(s) <= n}}

NoCustomSteps == <<>>

EnvironmentConfig(in, cs) == [Inputs |-> in, CustomSteps |-> cs]

\* manifests defining at most one environment
ResolveEnvironments ==
    {[e \in {} |-> EnvironmentConfig(EmptyMap, NoCustomSteps)]} \cup
    {[e \in {n} |-> EnvironmentConfig(in, NoCustomSteps)] :
        n \in EnvNames, in \in InputMaps(ResolveKeys, ResolveValues, MaxEnvInputs)}

\* Metadata is the *ManifestMetadata (<<>> = nil); HasSpec tells whether the
\* YAML document has a spec key; the other fields of Spec are flat
Manifest(t, in, cs, envs) ==
    [APIVersion |-> "gpgen.dev/v1", Kind |-> "Pipeline",
     Metadata |-> <<[Name |-> "test-app"]>>, HasSpec |-> TRUE,
     Template |-> t, Inputs |-> in, CustomSteps |-> cs, Environments |-> envs]

\* the same document without a metadata section
NoMetadata(m) == [m EXCEPT !.Metadata = <<>>]

ResolveManifests ==
    {Manifest(t, in, NoCustomSteps, envs) :
        t \in TemplateNames,
        in \in InputMaps(ResolveKeys, ResolveValues, MaxBaseInputs),
        envs \in ResolveEnvironments}

----------------------------------------------------------------------------
(* SpecResolve: getEffectiveInputs called on a manifest, as the unit tests do *)

InitResolve ==
    /\ manifest \in ResolveManifests
    /\ environment = ""
    /\ pc = "start"
    /\ inputs = EmptyMap
    /\ tmpl = ""
    /\ steps = <<>>
    /\ rendered = 0
    /\ applied = <<>>
    /\ prev = <<>>
    /\ err = <<>>
    /\ doc = <<>>
    /\ ret = <<>>
    /\ templates = <<>>
    /\ calls = <<>>
    /\ generateEnv = ""
    /\ generateDryRun = FALSE
    /\ generateOverwrite = FALSE
    /\ environments = <<>>
    /\ envIndex = 0
    /\ files = <<>>

\* inputs := g.getEffectiveInputs(m, environment)
CallGetEffectiveInputs(env) ==
    /\ pc = "start"
    /\ environment' = env
    /\ inputs' = getEffectiveInputs(manifest, env)
    /\ pc' = "resolved"
    /\ UNCHANGED <<manifest, tmpl, steps, rendered, applied, prev, err, doc, ret>>
    /\ UNCHANGED <<templates, calls, generateEnv, generateDryRun, generateOverwrite, environments, envIndex, files>>

NextResolve == \E env \in CallEnvs : CallGetEffectiveInputs(env)

SpecResolve == InitResolve /\ [][NextResolve]_vars

----------------------------------------------------------------------------
(* SpecSplice: applyCustomStep called on a step list, each call on the *)
(* result of the one before, as applyCustomSteps and the unit tests do  *)

\* step names of the lists: three of the alias table, one outside it
SpliceStepNames ==
    {<<"C", "h", "e", "c", "k", "o", "u", "t", " ", "c", "o", "d", "e">>,
     <<"R", "u", "n", " ", "t", "e", "s", "t", "s">>,
     <<"B", "u", "i", "l", "d", " ", "a", "p", "p", "l", "i", "c", "a", "t", "i", "o", "n">>,
     <<"S", "e", "c", "u", "r", "i", "t", "y", " ", "S", "c", "a", "n", "s">>}

\* the lists of at most n steps, built as the unit test builds them
RECURSIVE StepLists(_)
StepLists(n) ==
    IF n = 0 THEN {<<>>}
    ELSE LET shorter == StepLists(n - 1)
         IN  shorter \cup
             {Append(l, WorkflowStep(name, "", "", 0)) :
                l \in {x \in shorter : Len(x) = n - 1}, name \in SpliceStepNames}

SplicePositions ==
    {<<>>,
     <<"b", "e", "f", "o", "r", "e", ":", "t", "e", "s", "t">>,
     <<"a", "f", "t", "e", "r", ":", "t", "e", "s", "t">>,
     <<"r", "e", "p", "l", "a", "c", "e", ":", "b", "u", "i", "l", "d">>,
     <<"a", "f", "t", "e", "r", ":", "s", "c", "a", "n">>,
     <<"r", "e", "p", "l", "a", "c", "e", ":", "n", "o", "n", "e", "x", "i", "s", "t", "e", "n", "t">>,
     <<"i", "n", "v", "a", "l", "i", "d", "-", "p", "o", "s", "i", "t", "i", "o", "n">>,
     <<"d", "u", "r", "i", "n", "g", ":", "t", "e", "s", "t">>}

SpliceCustomSteps ==
    {CustomStep(<<"S", "e", "c", "u", "r", "i", "t", "y", " ", "S", "c", "a", "n">>, pos, "security/scan@v1", "") : pos \in SplicePositions}
    \cup
    {CustomStep(<<"L", "i", "n", "t", " ", "C", "o", "d", "e">>, pos, "", "npm run lint") :
        pos \in {<<>>, <<"b", "e", "f", "o", "r", "e", ":", "t", "e", "s", "t">>,
                 <<"a", "f", "t", "e", "r", ":", "s", "c", "a", "n">>}}

InitSplice ==
    /\ manifest = Manifest("", EmptyMap, NoCustomSteps, [e \in {} |-> EnvironmentConfig(EmptyMap, NoCustomSteps)])
    /\ environment = ""
    /\ pc = "splice"
    /\ inputs = EmptyMap
    /\ tmpl = ""
    /\ steps \in StepLists(MaxSteps)
    /\ rendered = Len(steps)
    /\ applied = <<>>
    /\ prev = steps
    /\ err = <<>>
    /\ doc = <<>>
    /\ ret = <<>>
    /\ templates = <<>>
    /\ calls = <<>>
    /\ generateEnv = ""
    /\ generateDryRun = FALSE
    /\ generateOverwrite = FALSE
    /\ environments = <<>>
    /\ envIndex = 0
    /\ files = <<>>

\* steps, err = g.applyCustomStep(steps, customStep)
CallApplyCustomStep(customStep) ==
    /\ pc = "splice"
    /\ err = <<>>
    /\ Len(applied) < MaxApplied
    /\ LET r == applyCustomStep(steps, customStep)
       IN  /\ steps' = r.steps
           /\ err' = r.err
    /\ prev' = steps
    /\ ret' = <<applyCustomStepWrites(steps, customStep)>>
    /\ applied' = Append(applied, customStep)
    /\ UNCHANGED <<manifest, environment, pc, inputs, tmpl, rendered, doc>>
    /\ UNCHANGED <<templates, calls, generateEnv, generateDryRun, generateOverwrite, environments, envIndex, files>>

NextSplice == \E customStep \in SpliceCustomSteps : CallApplyCustomStep(customStep)

SpecSplice == InitSplice /\ [][NextSplice]_vars

----------------------------------------------------------------------------
(* SpecMatch: matchesStep called on a step and a target, as the unit test does *)

\* step names: the five of the table, as the templates spell them, and four
\* outside it
MatchStepNames ==
    {<<"R", "u", "n", " ", "t", "e", "s", "t", "s">>,
     <<"B", "u", "i", "l", "d", " ", "a", "p", "p", "l", "i", "c", "a", "t", "i", "o", "n">>,
     <<"S", "e", "t", "u", "p", " ", "N", "o", "d", "e", ".", "j", "s">>,
     <<"I", "n", "s", "t", "a", "l", "l", " ", "d", "e", "p", "e", "n", "d", "e", "n", "c", "i", "e", "s">>,
     <<"C", "h", "e", "c", "k", "o", "u", "t", " ", "c", "o", "d", "e">>,
     <<"S", "e", "c", "u", "r", "i", "t", "y", " ", "S", "c", "a", "n", "s">>,
     <<"S", "e", "t", "u", "p", " ", "G", "o">>,
     <<"B", "u", "i", "l", "d", " ", "d", "o", "c", "s">>,
     <<"R", "u", "n", " ", "T", "r", "i", "v", "y", " ", "v", "u", "l", "n", "e", "r", "a", "b", "i", "l", "i", "t", "y", " ", "s", "c", "a", "n", "n", "e", "r">>}

\* the substrings of s of at most n characters, the empty one included
Substrings(s, n) ==
    {SubSeq(s, p[1], p[2]) :
        p \in {q \in (1..Len(s)) \X (0..Len(s)) : q[2] >= q[1] - 1 /\ q[2] - q[1] < n}}

\* targets: the aliases and tokens of the unit test, and every short piece
\* of a lowercased step name
MatchTargets ==
    {<<"t", "e", "s", "t">>,
     <<"t", "e", "s", "t", "s">>,
     <<"T", "E", "S", "T", "S">>,
     <<"b", "u", "i", "l", "d">>,
     <<"s", "e", "t", "u", "p", "-", "n", "o", "d", "e">>,
     <<"n", "o", "d", "e">>,
     <<"i", "n", "s", "t", "a", "l", "l">>,
     <<"d", "e", "p", "e", "n", "d", "e", "n", "c", "i", "e", "s">>,
     <<"c", "h", "e", "c", "k", "o", "u", "t">>,
     <<"s", "e", "t", "u", "p", "-", "g", "o">>,
     <<"s", "c", "a", "n", "n", "e", "r">>,
     <<"s", "e", "c", "u", "r", "i", "t", "y">>}
    \cup UNION {Substrings(ToLower(n), MaxTokenLen) : n \in MatchStepNames}

InitMatch ==
    /\ manifest = Manifest("", EmptyMap, NoCustomSteps, [e \in {} |-> EnvironmentConfig(EmptyMap, NoCustomSteps)])
    /\ environment = ""
    /\ pc = "match"
    /\ inputs = EmptyMap
    /\ tmpl = ""
    /\ steps \in {<<WorkflowStep(n, "", "", 0)>> : n \in MatchStepNames}
    /\ rendered = 0
    /\ applied = <<>>
    /\ prev = <<>>
    /\ err = <<>>
    /\ doc = <<>>
    /\ ret = <<>>
    /\ templates = <<>>
    /\ calls = <<>>
    /\ generateEnv = ""
    /\ generateDryRun = FALSE
    /\ generateOverwrite = FALSE
    /\ environments = <<>>
    /\ envIndex = 0
    /\ files = <<>>

\* result := generator.matchesStep(step, target)
CallMatchesStep(target) ==
    /\ pc = "match"
    /\ ret' = <<[target |-> target, result |-> matchesStep(steps[1], target)]>>
    /\ pc' = "matched"
    /\ UNCHANGED <<manifest, environment, inputs, tmpl, steps, rendered, applied, prev, err, doc>>
    /\ UNCHANGED <<templates, calls, generateEnv, generateDryRun, generateOverwrite, environments, envIndex, files>>

NextMatch == \E target \in MatchTargets : CallMatchesStep(target)

SpecMatch == InitMatch /\ [][NextMatch]_vars

----------------------------------------------------------------------------
(* SpecPermissions: getRequiredPermissions called on an inputs map, as the *)
(* unit test does                                                          *)

PermissionKeys == {"trivyScanEnabled", "containerEnabled", "goVersion", "nodeVersion"}

PermissionValues == {Bool(TRUE), Bool(FALSE), Str("true"), Str("1.22")}

InitPermissions ==
    /\ manifest = Manifest("", EmptyMap, NoCustomSteps, [e \in {} |-> EnvironmentConfig(EmptyMap, NoCustomSteps)])
    /\ environment = ""
    /\ pc = "permissions"
    /\ inputs \in InputMaps(PermissionKeys, PermissionValues, MaxPermissionInputs)
    /\ tmpl = ""
    /\ steps = <<>>
    /\ rendered = 0
    /\ applied = <<>>
    /\ prev = <<>>
    /\ err = <<>>
    /\ doc = <<>>
    /\ ret = <<>>
    /\ templates = <<>>
    /\ calls = <<>>
    /\ generateEnv = ""
    /\ generateDryRun = FALSE
    /\ generateOverwrite = FALSE
    /\ environments = <<>>
    /\ envIndex = 0
    /\ files = <<>>

\* result := generator.getRequiredPermissions(tmpl, inputs)
CallGetRequiredPermissions ==
    /\ pc = "permissions"
    /\ ret' = <<getRequiredPermissions(inputs)>>
    /\ pc' = "permitted"
    /\ UNCHANGED <<manifest, environment, inputs, tmpl, steps, rendered, applied, prev, err, doc>>
    /\ UNCHANGED <<templates, calls, generateEnv, generateDryRun, generateOverwrite, environments, envIndex, files>>

NextPermissions == CallGetRequiredPermissions

SpecPermissions == InitPermissions /\ [][NextPermissions]_vars

----------------------------------------------------------------------------
(* SpecValidate: ValidateInputs called on a template name and an inputs map, *)
(* and ValidateInputValue on a value and a definition, as the unit tests do  *)

\* m without the keys drop
Without(m, drop) == [k \in (DOMAIN m) \ drop |-> m[k]]

\* keys and values a caller adds or replaces; customKey is defined by no template
ValidateKeys == {"testCommand", "packageManager", "nodeVersion", "security", "customKey"}

ValidateValues == {Str("make test"), Str("yarn"), Str("99"), Num("18"), Bool(TRUE), Nil}

\* the inputs ValidateInputs is called with: the template's defaults with
\* some keys left out and some keys added or replaced
ValidateInputMaps(templateName) ==
    {Overlay(Without(TemplateDefaults(templateName), drop), extra) :
        drop \in {d \in SUBSET (DOMAIN TemplateInputs(templateName)) : Cardinality(d) <= MaxDropped},
        extra \in InputMaps(ValidateKeys, ValidateValues, MaxExtraInputs)}

\* the definitions ValidateInputValue is called with
ValueDefinitions ==
    {Input(type, Nil, FALSE, options) :
        type \in {"string", "number", "boolean", "array", "object"},
        options \in {{}, {"yarn", "18", "true"}}}

ValueValues == ValidateValues \cup {Arr("list"), Map("object", {}, {})}

\* the calls of ValidateInputValue: its arguments
ValueCalls ==
    {[name |-> "test", value |-> value, def |-> def] :
        value \in ValueValues, def \in ValueDefinitions}

\* either a template name and an inputs map for ValidateInputs, or the
\* arguments of one ValidateInputValue call
InitValidate ==
    /\ manifest = Manifest("", EmptyMap, NoCustomSteps, [e \in {} |-> EnvironmentConfig(EmptyMap, NoCustomSteps)])
    /\ environment = ""
    /\ pc = "validate-inputs"
    /\ \/ /\ \E templateName \in BuiltinTemplates :
                    /\ tmpl = templateName
                    /\ inputs \in ValidateInputMaps(templateName)
          /\ ret = <<>>
       \/ /\ tmpl = ""
          /\ inputs = EmptyMap
          /\ ret \in {<<c>> : c \in ValueCalls}
    /\ steps = <<>>
    /\ rendered = 0
    /\ applied = <<>>
    /\ prev = <<>>
    /\ err = <<>>
    /\ doc = <<>>
    /\ templates = <<>>
    /\ calls = <<>>
    /\ generateEnv = ""
    /\ generateDryRun = FALSE
    /\ generateOverwrite = FALSE
    /\ environments = <<>>
    /\ envIndex = 0
    /\ files = <<>>

\* err := tm.ValidateInputs(templateName, inputs)
CallValidateInputs ==
    /\ pc = "validate-inputs"
    /\ ret = <<>>
    /\ LET errs == ValidateInputs(tmpl, inputs)
       IN  IF errs = {} THEN err' = <<>> ELSE err' \in errs
    /\ pc' = "validated"
    /\ templates' = LoadTemplateCache(templates, tmpl, 1)
    /\ UNCHANGED <<manifest, environment, inputs, tmpl, steps, rendered, applied, prev, doc, ret>>
    /\ UNCHANGED <<calls, generateEnv, generateDryRun, generateOverwrite, environments, envIndex, files>>

\* err := tm.ValidateInputValue(name, value, def)
CallValidateInputValue ==
    /\ pc = "validate-inputs"
    /\ ret # <<>>
    /\ err' = ValidateInputValue(ret[1].name, ret[1].value, ret[1].def)
    /\ pc' = "value-validated"
    /\ UNCHANGED <<manifest, environment, inputs, tmpl, steps, rendered, applied, prev, doc, ret>>
    /\ UNCHANGED <<templates, calls, generateEnv, generateDryRun, generateOverwrite, environments, envIndex, files>>

NextValidate ==
    \/ CallValidateInputs
    \/ CallValidateInputValue

SpecValidate == InitValidate /\ [][NextValidate]_vars

----------------------------------------------------------------------------
(* Spec: GenerateWorkflow(m, environment), one action per phase *)

\* security: {trivy: {enabled: true, severity: ..., exitCode: ...}} as a
\* manifest writes it
FullSecurity == Map("security", {"trivy"}, {})

FullContainer ==
    Map("container", {"build", "push"},
        {"enabled", "registry", "imageName", "imageTag", "dockerfile", "buildContext", "buildArgs"})

\* container.build given as a scalar
FlatContainer == Map("container", {"push"}, {"enabled", "registry", "build"})

\* the object inputs a manifest gives: none, both as maps, container.build flat
GenObjectInputs ==
    {EmptyMap,
     [k \in {"security", "container"} |-> IF k = "security" THEN FullSecurity ELSE FullContainer],
     [k \in {"security", "container"} |-> IF k = "security" THEN FullSecurity ELSE FlatContainer]}

\* the scalar inputs a manifest gives: none, a valid one, one of the wrong
\* type, one outside the options of python-app
GenScalarInputs ==
    {EmptyMap,
     [k \in {"testCommand"} |-> Str("make test")],
     [k \in {"testCommand"} |-> Bool(TRUE)],
     [k \in {"packageManager"} |-> Str("yarn")]}

GenBaseInputs == {Overlay(o, sc) : o \in GenObjectInputs, sc \in GenScalarInputs}

GenEnvInputs ==
    {EmptyMap,
     [k \in {"testCommand"} |-> Str("make test-all")],
     [k \in {"testCommand"} |-> Bool(FALSE)]}

GenCustomSteps ==
    {CustomStep(<<"D", "e", "p", "l", "o", "y">>, <<>>, "", "deploy command"),
     CustomStep(<<"S", "e", "c", "u", "r", "i", "t", "y", " ", "S", "c", "a", "n">>, <<"a", "f", "t", "e", "r", ":", "t", "e", "s", "t">>, "security/scan@v1", ""),
     CustomStep(<<"L", "i", "n", "t", " ", "C", "o", "d", "e">>, <<"b", "e", "f", "o", "r", "e", ":", "d", "e", "p", "l", "o", "y">>, "", "npm run lint"),
     CustomStep(<<"N", "o", "t", "i", "f", "y">>, <<"d", "u", "r", "i", "n", "g", ":", "t", "e", "s", "t">>, "", "notify command")}

\* the custom-step lists of at most n steps
RECURSIVE CustomStepLists(_)
CustomStepLists(n) ==
    IF n = 0 THEN {<<>>}
    ELSE LET shorter == CustomStepLists(n - 1)
         IN  shorter \cup
             {Append(l, cs) : l \in {x \in shorter : Len(x) = n - 1}, cs \in GenCustomSteps}

\* the custom steps an environment adds: one that targets a base custom
\* step, one with an unknown directive
GenEnvCustomSteps == {cs \in GenCustomSteps : cs.Position # <<>> /\ cs.Uses = ""}

\* the environment custom-step lists of at most n steps
RECURSIVE EnvCustomStepLists(_)
EnvCustomStepLists(n) ==
    IF n = 0 THEN {<<>>}
    ELSE LET shorter == EnvCustomStepLists(n - 1)
         IN  shorter \cup
             {Append(l, cs) : l \in {x \in shorter : Len(x) = n - 1}, cs \in GenEnvCustomSteps}

GenEnvironments ==
    {[e \in {} |-> EnvironmentConfig(EmptyMap, NoCustomSteps)]} \cup
    {[e \in {n} |-> EnvironmentConfig(in, cs)] :
        n \in {"production", "default"}, in \in GenEnvInputs, cs \in EnvCustomStepLists(MaxCustom)}

\* the manifests with a metadata section, and those without custom steps
\* and environments also without one
GenManifests ==
    LET named == {Manifest(t, in, cs, envs) :
                    t \in TemplateNames, in \in GenBaseInputs,
                    cs \in CustomStepLists(MaxCustom), envs \in GenEnvironments}
    IN  named \cup
        {NoMetadata(m) : m \in {x \in named : x.CustomSteps = <<>> /\ DOMAIN x.Environments = {}}}

GenCallEnvs == {"default", "staging", "production"}

Init ==
    /\ manifest \in GenManifests
    /\ environment = ""
    /\ pc = "start"
    /\ inputs = EmptyMap
    /\ tmpl = ""
    /\ steps = <<>>
    /\ rendered = 0
    /\ applied = <<>>
    /\ prev = <<>>
    /\ err = <<>>
    /\ doc = <<>>
    /\ ret = <<>>
    /\ templates = <<>>
    /\ calls = <<>>
    /\ generateEnv = ""
    /\ generateDryRun = FALSE
    /\ generateOverwrite = FALSE
    /\ environments = <<>>
    /\ envIndex = 0
    /\ files = <<>>

\* return "", err
Fail(e) ==
    /\ err' = e
    /\ doc' = <<>>
    /\ pc' = "done"

\* the call and tmpl, err := g.templateManager.LoadTemplate(m.Spec.Template)
LoadTemplate(env) ==
    /\ pc = "start"
    /\ environment' = env
    /\ IF LoadTemplateOk(manifest.Template)
       THEN /\ tmpl' = manifest.Template
            /\ pc' = "resolve"
            /\ UNCHANGED <<err, doc>>
       ELSE /\ Fail(Wrap("failed to load template", "",
                     Wrap("failed to load template", manifest.Template,
                          Error("unknown template", manifest.Template))))
            /\ UNCHANGED tmpl
    /\ templates' = LoadTemplateCache(templates, manifest.Template, 1)
    /\ UNCHANGED <<manifest, inputs, steps, rendered, applied, prev, ret>>
    /\ UNCHANGED <<calls, generateEnv, generateDryRun, generateOverwrite, environments, envIndex, files>>

\* inputs := g.getEffectiveInputs(m, environment)
ResolveInputs ==
    /\ pc = "resolve"
    /\ inputs' = getEffectiveInputs(manifest, environment)
    /\ pc' = "validate"
    /\ UNCHANGED <<manifest, environment, tmpl, steps, rendered, applied, prev, err, doc, ret>>
    /\ UNCHANGED <<templates, calls, generateEnv, generateDryRun, generateOverwrite, environments, envIndex, files>>

\* mutant: the validation error is dropped
Validate_IgnoreError ==
    /\ pc = "validate"
    /\ pc' = "render"
    /\ UNCHANGED <<manifest, environment, inputs, tmpl, steps, rendered, applied, prev, err, doc, ret>>
    /\ UNCHANGED <<templates, calls, generateEnv, generateDryRun, generateOverwrite, environments, envIndex, files>>

\* if err := g.templateManager.ValidateInputs(...); err != nil { return "", ... }
Validate ==
    /\ pc = "validate"
    /\ LET errs == ValidateInputs(manifest.Template, inputs)
       IN  IF errs = {}
           THEN /\ pc' = "render"
                /\ UNCHANGED <<err, doc>>
           ELSE \E e \in errs : Fail(Wrap("input validation failed", "", e))
    /\ UNCHANGED <<manifest, environment, inputs, tmpl, steps, rendered, applied, prev, ret>>
    /\ UNCHANGED <<templates, calls, generateEnv, generateDryRun, generateOverwrite, environments, envIndex, files>>

\* the loop of generateSteps over tmpl.Steps
RenderTemplateSteps ==
    /\ pc = "render"
    /\ \E r \in renderSteps(TemplateSteps(tmpl), inputs, <<>>) :
            /\ rendered' = Len(r.steps)
            /\ IF r.err = <<>>
               THEN /\ steps' = r.steps
                    /\ prev' = r.steps
                    /\ pc' = "splice"
                    /\ UNCHANGED <<err, doc>>
               ELSE /\ steps' = <<>>
                    /\ prev' = <<>>
                    /\ Fail(Wrap("failed to generate steps", "", r.err))
    /\ UNCHANGED <<manifest, environment, inputs, tmpl, applied, ret>>
    /\ UNCHANGED <<templates, calls, generateEnv, generateDryRun, generateOverwrite, environments, envIndex, files>>

\* mutant: the environment's custom steps come before the base ones
allCustomSteps_EnvFirst(m, env) ==
    IF env # "default" /\ env \in DOMAIN m.Environments
    THEN m.Environments[env].CustomSteps \o m.CustomSteps
    ELSE m.CustomSteps

\* allCustomSteps of applyCustomSteps
allCustomSteps(m, env) ==
    IF env # "default" /\ env \in DOMAIN m.Environments
    THEN m.CustomSteps \o m.Environments[env].CustomSteps
    ELSE m.CustomSteps

\* mutant: a failing custom step is skipped and the loop goes on
ApplyCustomSteps_SkipFailing ==
    /\ pc = "splice"
    /\ LET all == allCustomSteps(manifest, environment)
       IN  IF Len(applied) < Len(all)
           THEN LET customStep == all[Len(applied) + 1]
                    r == applyCustomStep(steps, customStep)
                IN  /\ applied' = Append(applied, customStep)
                    /\ prev' = steps
                    /\ steps' = IF r.err = <<>> THEN r.steps ELSE steps
                    /\ UNCHANGED <<pc, err, doc>>
           ELSE /\ pc' = "assemble"
                /\ UNCHANGED <<steps, applied, prev, err, doc>>
    /\ UNCHANGED <<manifest, environment, inputs, tmpl, rendered, ret>>
    /\ UNCHANGED <<templates, calls, generateEnv, generateDryRun, generateOverwrite, environments, envIndex, files>>

\* one iteration of the loop of applyCustomSteps, or its end
ApplyCustomSteps ==
    /\ pc = "splice"
    /\ LET all == allCustomSteps(manifest, environment)
       IN  IF Len(applied) < Len(all)
           THEN LET customStep == all[Len(applied) + 1]
                    r == applyCustomStep(steps, customStep)
                IN  /\ applied' = Append(applied, customStep)
                    /\ prev' = steps
                    /\ IF r.err = <<>>
                       THEN /\ steps' = r.steps
                            /\ UNCHANGED <<pc, err, doc>>
                       ELSE /\ steps' = <<>>
                            /\ Fail(Wrap("failed to generate steps", "",
                                    Wrap("failed to apply custom steps", "",
                                    Wrap("failed to apply custom step", customStep.Name, r.err))))
           ELSE /\ pc' = "assemble"
                /\ UNCHANGED <<steps, applied, prev, err, doc>>
    /\ UNCHANGED <<manifest, environment, inputs, tmpl, rendered, ret>>
    /\ UNCHANGED <<templates, calls, generateEnv, generateDryRun, generateOverwrite, environments, envIndex, files>>

\* the workflow is built and encoded; return buf.String(), nil.  With a nil
\* m.Metadata getWorkflowName dereferences a nil pointer and the call panics
Assemble ==
    /\ pc = "assemble"
    /\ IF manifest.Metadata = <<>>
       THEN /\ pc' = "panic"
            /\ UNCHANGED doc
       ELSE /\ doc' = <<Workflow(manifest, environment, inputs, steps)>>
            /\ pc' = "done"
    /\ UNCHANGED <<manifest, environment, inputs, tmpl, steps, rendered, applied, prev, err, ret>>
    /\ UNCHANGED <<templates, calls, generateEnv, generateDryRun, generateOverwrite, environments, envIndex, files>>

Next ==
    \/ \E env \in GenCallEnvs : LoadTemplate(env)
    \/ ResolveInputs
    \/ Validate
    \/ RenderTemplateSteps
    \/ ApplyCustomSteps
    \/ Assemble

Spec == Init /\ [][Next]_vars

----------------------------------------------------------------------------
(* Manifest parsing and validation (package manifest) *)

validAPIVersions == {"gpgen.dev/v1"}

validKinds == {"Pipeline"}

validTemplates == {"node-app", "go-service"}

\* the names tm.ListTemplates returns
ListTemplates == {"node-app", "go-service", "python-app"}

\* the characters of [a-z0-9-]
TokenChars ==
    {"a", "b", "c", "d", "e", "f", "g", "h", "i", "j", "k", "l", "m", "n", "o", "p", "q",
     "r", "s", "t", "u", "v", "w", "x", "y", "z",
     "0", "1", "2", "3", "4", "5", "6", "7", "8", "9", "-"}

\* positionRegex.MatchString(position) for ^(before|after|replace):[a-z0-9-]+$
positionRegex(position) ==
    LET i == IndexOf(position, ":")
        directive == SubSeq(position, 1, i - 1)
        token == SubSeq(position, i + 1, Len(position))
    IN  /\ i # 0
        /\ directive \in {<<"b", "e", "f", "o", "r", "e">>, <<"a", "f", "t", "e", "r">>,
                          <<"r", "e", "p", "l", "a", "c", "e">>}
        /\ Len(token) >= 1
        /\ \A j \in 1..Len(token) : token[j] \in TokenChars

\* mutant: an empty position is not checked
validatePosition_EmptyAllowed(position) ==
    IF position = <<>> \/ positionRegex(position) THEN <<>>
    ELSE Error("invalid position format", position)

validatePosition(position) ==
    IF positionRegex(position) THEN <<>>
    ELSE Error("invalid position format", position)

validateCustomStep(step) ==
    IF step.Name = <<>> THEN Error("step name cannot be empty", "")
    ELSE IF validatePosition(step.Position) # <<>> THEN validatePosition(step.Position)
    ELSE IF step.Uses = "" /\ step.Run = "" THEN Error("step must have either 'uses' or 'run'", "")
    ELSE IF step.Uses # "" /\ step.Run # "" THEN Error("step cannot have both 'uses' and 'run'", "")
    ELSE IF step.TimeoutMinutes # 0 /\ (step.TimeoutMinutes < 1 \/ step.TimeoutMinutes > 360)
    THEN Error("timeout-minutes must be between 1 and 360", "")
    ELSE <<>>

\* the checks ParseManifest makes after decoding the document
ParseManifest(m) ==
    IF m.APIVersion = "" THEN Error("apiVersion is required", "")
    ELSE IF m.Kind = "" THEN Error("kind is required", "")
    ELSE IF ~m.HasSpec THEN Error("spec is required", "")
    ELSE IF m.Template = "" THEN Error("template is required", "")
    ELSE <<>>

\* the index of the first custom step validateCustomStep rejects, 0 if none
FirstInvalid(cs) ==
    IF \E i \in 1..Len(cs) : validateCustomStep(cs[i]) # <<>>
    THEN CHOOSE i \in 1..Len(cs) :
            /\ validateCustomStep(cs[i]) # <<>>
            /\ \A j \in 1..(i - 1) : validateCustomStep(cs[j]) = <<>>
    ELSE 0

\* ValidateManifest: the errors it can return ({} = nil).  The environments
\* are visited in the map's iteration order, so the first invalid step of any
\* environment can be the one reported.
ValidateManifest(m) ==
    IF m.APIVersion \notin validAPIVersions THEN {Error("invalid apiVersion", m.APIVersion)}
    ELSE IF m.Kind \notin validKinds THEN {Error("invalid kind", m.Kind)}
    ELSE IF m.Template \notin validTemplates THEN {Error("invalid template", m.Template)}
    ELSE IF FirstInvalid(m.CustomSteps) # 0
    THEN {Wrap("invalid custom step at index", FirstInvalid(m.CustomSteps) - 1,
               validateCustomStep(m.CustomSteps[FirstInvalid(m.CustomSteps)]))}
    ELSE {Wrap("invalid custom step at index in environment",
               <<FirstInvalid(m.Environments[e].CustomSteps) - 1, e>>,
               validateCustomStep(m.Environments[e].CustomSteps[FirstInvalid(m.Environments[e].CustomSteps)]))
            : e \in {x \in DOMAIN m.Environments : FirstInvalid(m.Environments[x].CustomSteps) # 0}}

\* LoadManifestFromFile on a file that holds the document m: the errors it
\* can return ({} = the manifest is returned)
LoadManifestFromFile(m) ==
    IF ParseManifest(m) # <<>> THEN {ParseManifest(m)}
    ELSE {Wrap("manifest validation failed", "", e) : e \in ValidateManifest(m)}

----------------------------------------------------------------------------
(* SpecManifest: LoadManifestFromFile called on a manifest file, as the unit *)
(* tests do                                                                  *)

\* positions of the custom steps: those of TestValidatePosition and none
ManifestPositions ==
    {<<>>,
     <<"a", "f", "t", "e", "r", ":", "t", "e", "s", "t">>,
     <<"b", "e", "f", "o", "r", "e", ":", "s", "e", "t", "u", "p", "-", "n", "o", "d", "e">>,
     <<"i", "n", "v", "a", "l", "i", "d">>,
     <<"a", "f", "t", "e", "r", ":">>,
     <<":", "t", "e", "s", "t">>,
     <<"d", "u", "r", "i", "n", "g", ":", "t", "e", "s", "t">>,
     <<"a", "f", "t", "e", "r", ":", "T", "e", "s", "t">>,
     <<"a", "f", "t", "e", "r", ":", "t", "e", "s", "t", "_", "c", "a", "s", "e">>}

\* a step with run for each position, and steps that break the other rules
ManifestCustomSteps ==
    {CustomStep(<<"D", "e", "p", "l", "o", "y">>, pos, "", "deploy command") : pos \in ManifestPositions}
    \cup
    {CustomStep(<<>>, <<"a", "f", "t", "e", "r", ":", "t", "e", "s", "t">>, "", "deploy command"),
     CustomStep(<<"D", "e", "p", "l", "o", "y">>, <<"a", "f", "t", "e", "r", ":", "t", "e", "s", "t">>, "", ""),
     CustomStep(<<"D", "e", "p", "l", "o", "y">>, <<"a", "f", "t", "e", "r", ":", "t", "e", "s", "t">>, "actions/deploy@v1", "deploy command"),
     [CustomStep(<<"D", "e", "p", "l", "o", "y">>, <<"a", "f", "t", "e", "r", ":", "t", "e", "s", "t">>, "", "deploy command")
        EXCEPT !.TimeoutMinutes = 361],
     [CustomStep(<<"D", "e", "p", "l", "o", "y">>, <<"a", "f", "t", "e", "r", ":", "t", "e", "s", "t">>, "", "deploy command")
        EXCEPT !.TimeoutMinutes = 30]}

\* the custom-step lists of at most MaxCustom steps
ManifestCustomStepLists ==
    {<<>>} \cup UNION {[1..n -> ManifestCustomSteps] : n \in 1..MaxCustom}

\* documents with the template, the metadata section, the base custom steps
\* and the custom steps of one environment varied, and documents that break
\* one rule of the header
ManifestDocuments ==
    LET specs == {Manifest(t, EmptyMap, cs, envs) :
                    t \in ListTemplates \cup {"nonexistent-template"},
                    cs \in ManifestCustomStepLists,
                    envs \in {[e \in {} |-> EnvironmentConfig(EmptyMap, NoCustomSteps)]} \cup
                             {[e \in {"staging"} |-> EnvironmentConfig(EmptyMap, ecs)] :
                                ecs \in {l \in ManifestCustomStepLists :
                                            \A i \in 1..Len(l) : l[i].Uses = "" /\ l[i].Run # ""
                                                                 /\ l[i].TimeoutMinutes = 0}}}
        valid == Manifest("go-service", EmptyMap, NoCustomSteps,
                          [e \in {} |-> EnvironmentConfig(EmptyMap, NoCustomSteps)])
    IN  specs \cup {NoMetadata(m) : m \in {x \in specs : x.CustomSteps = <<>>}} \cup
        {[valid EXCEPT !.APIVersion = v] : v \in {"", "gpgen.dev/v2"}} \cup
        {[valid EXCEPT !.Kind = k] : k \in {"", "Workflow"}} \cup
        {[valid EXCEPT !.HasSpec = FALSE, !.Template = ""], [valid EXCEPT !.Template = ""]}

InitManifest ==
    /\ manifest \in ManifestDocuments
    /\ environment = ""
    /\ pc = "load"
    /\ inputs = EmptyMap
    /\ tmpl = ""
    /\ steps = <<>>
    /\ rendered = 0
    /\ applied = <<>>
    /\ prev = <<>>
    /\ err = <<>>
    /\ doc = <<>>
    /\ ret = <<>>
    /\ templates = <<>>
    /\ calls = <<>>
    /\ generateEnv = ""
    /\ generateDryRun = FALSE
    /\ generateOverwrite = FALSE
    /\ environments = <<>>
    /\ envIndex = 0
    /\ files = <<>>

\* manifest, err := LoadManifestFromFile(manifestPath)
CallLoadManifestFromFile ==
    /\ pc = "load"
    /\ LET errs == LoadManifestFromFile(manifest)
       IN  IF errs = {}
           THEN /\ ret' = <<manifest>>
                /\ UNCHANGED err
           ELSE /\ err' \in errs
                /\ UNCHANGED ret
    /\ pc' = "loaded"
    /\ UNCHANGED <<manifest, environment, inputs, tmpl, steps, rendered, applied, prev, doc>>
    /\ UNCHANGED <<templates, calls, generateEnv, generateDryRun, generateOverwrite, environments, envIndex, files>>

NextManifest == CallLoadManifestFromFile

SpecManifest == InitManifest /\ [][NextManifest]_vars

----------------------------------------------------------------------------
(* GenerateWorkflow as one call: the results it can end with *)

\* the loop of applyCustomSteps over allCustomSteps
RECURSIVE applyCustomSteps(_, _)
applyCustomSteps(st, all) ==
    IF all = <<>> THEN Result(st, <<>>)
    ELSE LET r == applyCustomStep(st, Head(all))
         IN  IF r.err # <<>>
             THEN Result(<<>>, Wrap("failed to apply custom step", Head(all).Name, r.err))
             ELSE applyCustomSteps(r.steps, Tail(all))

\* return d, e
Returned(d, e) == [doc |-> d, err |-> e, panic |-> FALSE]

\* the call does not return: a nil pointer is dereferenced
Panicked == [doc |-> <<>>, err |-> <<>>, panic |-> TRUE]

GenerateWorkflow(m, env) ==
    IF ~LoadTemplateOk(m.Template)
    THEN {Returned(<<>>, Wrap("failed to load template", "",
                         Wrap("failed to load template", m.Template,
                              Error("unknown template", m.Template))))}
    ELSE LET in == getEffectiveInputs(m, env)
             errs == ValidateInputs(m.Template, in)
         IN  IF errs # {}
             THEN {Returned(<<>>, Wrap("input validation failed", "", e)) : e \in errs}
             ELSE {IF r.err # <<>>
                   THEN Returned(<<>>, Wrap("failed to generate steps", "", r.err))
                   ELSE LET a == applyCustomSteps(r.steps, allCustomSteps(m, env))
                        IN  IF a.err # <<>>
                            THEN Returned(<<>>, Wrap("failed to generate steps", "",
                                                Wrap("failed to apply custom steps", "", a.err)))
                            ELSE IF m.Metadata = <<>> THEN Panicked
                            ELSE Returned(<<Workflow(m, env, in, a.steps)>>, <<>>)
                   : r \in renderSteps(TemplateSteps(m.Template), in, <<>>)}

----------------------------------------------------------------------------
(* SpecConcurrent: two GenerateWorkflow calls running concurrently on one *)
(* WorkflowGenerator and one manifest.  The accesses of tm.templates are   *)
(* the steps; the rest of a call works on its own locals.                  *)

Calls == {1, 2}

ConcurrentManifests ==
    {Manifest(t, in, NoCustomSteps, envs) :
        t \in {"node-app", "nonexistent-template"},
        in \in {i \in GenBaseInputs : DOMAIN i \subseteq {"security", "container"}},
        envs \in {e \in GenEnvironments :
                    \A n \in DOMAIN e : n = "production" /\ e[n].CustomSteps = <<>>}}

\* a call about to run LoadTemplate; tmpl is the *Template it holds, named by
\* the call that built it (<<>> = nil)
Call(env) ==
    [pc |-> "lookup", environment |-> env, tmpl |-> <<>>, err |-> <<>>, doc |-> <<>>]

\* the generator is new, or an earlier call has loaded the manifest's template
InitConcurrent ==
    /\ manifest \in ConcurrentManifests
    /\ templates \in {<<>>} \cup
            {[n \in {manifest.Template} |-> 0] : x \in {y \in {1} : LoadTemplateOk(manifest.Template)}}
    /\ calls \in [Calls -> {Call(env) : env \in GenCallEnvs}]
    /\ environment = ""
    /\ pc = "concurrent"
    /\ inputs = EmptyMap
    /\ tmpl = ""
    /\ steps = <<>>
    /\ rendered = 0
    /\ applied = <<>>
    /\ prev = <<>>
    /\ err = <<>>
    /\ doc = <<>>
    /\ ret = <<>>
    /\ generateEnv = ""
    /\ generateDryRun = FALSE
    /\ generateOverwrite = FALSE
    /\ environments = <<>>
    /\ envIndex = 0
    /\ files = <<>>

\* mutant: the lookup never finds the template
Lookup_AlwaysMiss(p) ==
    /\ calls[p].pc = "lookup"
    /\ IF LoadTemplateOk(manifest.Template)
       THEN calls' = [calls EXCEPT ![p].pc = "store"]
       ELSE calls' = [calls EXCEPT ![p].pc = "done",
                        ![p].err = Wrap("failed to load template", "",
                                   Wrap("failed to load template", manifest.Template,
                                        Error("unknown template", manifest.Template)))]
    /\ UNCHANGED <<manifest, environment, pc, inputs, tmpl, steps, rendered, applied, prev, err, doc, ret>>
    /\ UNCHANGED <<templates, generateEnv, generateDryRun, generateOverwrite, environments, envIndex, files>>

\* LoadTemplate up to its store: if template, exists := tm.templates[name];
\* exists { return }, then getBuiltinTemplate(name)
Lookup(p) ==
    /\ calls[p].pc = "lookup"
    /\ IF manifest.Template \in DOMAIN templates
       THEN calls' = [calls EXCEPT ![p].pc = "validate",
                        ![p].tmpl = <<templates[manifest.Template]>>]
       ELSE IF LoadTemplateOk(manifest.Template)
       THEN calls' = [calls EXCEPT ![p].pc = "store"]
       ELSE calls' = [calls EXCEPT ![p].pc = "done",
                        ![p].err = Wrap("failed to load template", "",
                                   Wrap("failed to load template", manifest.Template,
                                        Error("unknown template", manifest.Template)))]
    /\ UNCHANGED <<manifest, environment, pc, inputs, tmpl, steps, rendered, applied, prev, err, doc, ret>>
    /\ UNCHANGED <<templates, generateEnv, generateDryRun, generateOverwrite, environments, envIndex, files>>

\* tm.templates[name] = template; return template, nil
Store(p) ==
    /\ calls[p].pc = "store"
    /\ templates' = Stored(templates, manifest.Template, p)
    /\ calls' = [calls EXCEPT ![p].pc = "validate", ![p].tmpl = <<p>>]
    /\ UNCHANGED <<manifest, environment, pc, inputs, tmpl, steps, rendered, applied, prev, err, doc, ret>>
    /\ UNCHANGED <<generateEnv, generateDryRun, generateOverwrite, environments, envIndex, files>>

\* the rest of the call: ValidateInputs looks the template up in tm.templates
\* again (it is there: this call found or stored it), and what follows reads
\* the call's own inputs and step list
Generate(p) ==
    /\ calls[p].pc = "validate"
    /\ manifest.Template \in DOMAIN templates
    /\ \E r \in GenerateWorkflow(manifest, calls[p].environment) :
            calls' = [calls EXCEPT ![p].pc = IF r.panic THEN "panic" ELSE "done",
                        ![p].err = r.err, ![p].doc = r.doc]
    /\ UNCHANGED <<manifest, environment, pc, inputs, tmpl, steps, rendered, applied, prev, err, doc, ret>>
    /\ UNCHANGED <<templates, generateEnv, generateDryRun, generateOverwrite, environments, envIndex, files>>

\* call p is at its map write while call q is at a read or write of the same
\* map: the accesses are not ordered, and the runtime may stop the process
\* with "fatal error: concurrent map writes" (or "concurrent map read and map
\* write"); when it does not, the calls go on by the other actions
ConcurrentMapAccess ==
    /\ \E p, q \in DOMAIN calls :
            /\ p # q
            /\ calls[p].pc = "store"
            /\ calls[q].pc \in {"lookup", "store", "validate"}
    /\ calls' = [p \in DOMAIN calls |-> [calls[p] EXCEPT !.pc = "fatal"]]
    /\ UNCHANGED <<manifest, environment, pc, inputs, tmpl, steps, rendered, applied, prev, err, doc, ret>>
    /\ UNCHANGED <<templates, generateEnv, generateDryRun, generateOverwrite, environments, envIndex, files>>

NextConcurrent ==
    \/ \E p \in Calls : Lookup(p)
    \/ \E p \in Calls : Store(p)
    \/ \E p \in Calls : Generate(p)
    \/ ConcurrentMapAccess

SpecConcurrent == InitConcurrent /\ [][NextConcurrent]_vars

----------------------------------------------------------------------------
(* SpecRun: one run of the generate command (runGenerate) on a manifest file *)
(* and an output directory                                                   *)

MaxRunEnvs == 2

\* a file that was in the output directory before the run
Existing == [kind |-> "existing", doc |-> <<>>]

\* a file holding the whole document d, and one holding a part of it
Written(d) == [kind |-> "workflow", doc |-> d]
Partial(d) == [kind |-> "partial", doc |-> d]

\* workflowName of runGenerate; outputPath is this name in the output directory
workflowName(m, env) ==
    IF env # "default"
    THEN m.Metadata[1].Name \o "-" \o env \o ".yml"
    ELSE m.Metadata[1].Name \o ".yml"

\* the environments slice runGenerate builds: range over m.Spec.Environments
\* visits the names in any order
Environments(m, env) ==
    IF env # "" THEN {<<env>>}
    ELSE LET names == DOMAIN m.Environments
         IN  {<<"default">> \o order :
                order \in {f \in [1..Cardinality(names) -> names] :
                            \A i, j \in 1..Cardinality(names) : f[i] = f[j] => i = j}}

\* manifests of the run: a template the validator knows or not, the object
\* inputs given or left to the defaults, with and without metadata, and at
\* most MaxRunEnvs environments, each valid or with an input of the wrong type
RunManifests ==
    LET configs == {EnvironmentConfig(in, NoCustomSteps) :
                        in \in {EmptyMap, [k \in {"testCommand"} |-> Bool(FALSE)]}}
        envs == UNION {[d -> configs] :
                        d \in {x \in SUBSET {"default", "staging", "production"} :
                                Cardinality(x) <= MaxRunEnvs}}
        named == {Manifest(t, in, NoCustomSteps, e) :
                    t \in {"go-service", "python-app"},
                    in \in {i \in GenObjectInputs : i = EmptyMap \/ i["container"] = FullContainer},
                    e \in envs}
    IN  named \cup {NoMetadata(m) : m \in {x \in named : Cardinality(DOMAIN x.Environments) <= 1}}

InitRun ==
    /\ manifest \in RunManifests
    /\ generateEnv \in {"", "production"}
    /\ generateDryRun \in BOOLEAN
    /\ generateOverwrite \in BOOLEAN
    /\ files \in UNION {[d -> {Existing}] : d \in SUBSET {"test-app.yml", "test-app-production.yml"}}
    /\ environments = <<>>
    /\ envIndex = 0
    /\ environment = ""
    /\ pc = "run"
    /\ inputs = EmptyMap
    /\ tmpl = ""
    /\ steps = <<>>
    /\ rendered = 0
    /\ applied = <<>>
    /\ prev = <<>>
    /\ err = <<>>
    /\ doc = <<>>
    /\ ret = <<>>
    /\ templates = <<>>
    /\ calls = <<>>

\* runGenerate up to its loop: the manifest is loaded and validated, the
\* generator created and the environments determined
LoadAndValidate ==
    /\ pc = "run"
    /\ LET errs == LoadManifestFromFile(manifest)
       IN  IF errs # {}
           THEN /\ \E e \in errs : err' = Wrap("failed to load manifest", "", e)
                /\ pc' = "done"
                /\ UNCHANGED <<environments, envIndex>>
           ELSE /\ environments' \in Environments(manifest, generateEnv)
                /\ envIndex' = 1
                /\ pc' = "loop"
                /\ UNCHANGED err
    /\ UNCHANGED <<manifest, environment, inputs, tmpl, steps, rendered, applied, prev, doc, ret>>
    /\ UNCHANGED <<templates, calls, generateEnv, generateDryRun, generateOverwrite, files>>

\* mutant: the files the run has written are removed when an environment fails
GenerateAndWrite_Rollback ==
    /\ pc = "loop"
    /\ envIndex <= Len(environments)
    /\ environment' = environments[envIndex]
    /\ IF manifest.Metadata = <<>>
       THEN /\ pc' = "panic"
            /\ UNCHANGED <<err, files, envIndex, templates>>
       ELSE IF generateDryRun
       THEN /\ envIndex' = envIndex + 1
            /\ UNCHANGED <<pc, err, files, templates>>
       ELSE LET env == environments[envIndex]
                outputPath == workflowName(manifest, env)
            IN  /\ templates' = LoadTemplateCache(templates, manifest.Template, 1)
                /\ \E r \in GenerateWorkflow(manifest, env) :
                    IF r.err # <<>>
                    THEN /\ err' = Wrap("failed to generate workflow for", env, r.err)
                         /\ pc' = "done"
                         /\ files' = [f \in {x \in DOMAIN files : files[x].kind = "existing"} |-> files[f]]
                         /\ UNCHANGED envIndex
                    ELSE IF outputPath \in DOMAIN files /\ ~generateOverwrite
                    THEN /\ err' = Error("workflow file already exists", outputPath)
                         /\ pc' = "done"
                         /\ UNCHANGED <<files, envIndex>>
                    ELSE \/ /\ files' = Stored(files, outputPath, Written(r.doc))
                            /\ envIndex' = envIndex + 1
                            /\ UNCHANGED <<pc, err>>
                         \/ /\ files' \in {files, Stored(files, outputPath, Partial(r.doc))}
                            /\ err' = Wrap("failed to write workflow file", outputPath, Error("write", ""))
                            /\ pc' = "done"
                            /\ UNCHANGED envIndex
    /\ UNCHANGED <<manifest, inputs, tmpl, steps, rendered, applied, prev, doc, ret>>
    /\ UNCHANGED <<calls, generateEnv, generateDryRun, generateOverwrite, environments>>

\* mutant: the file is written without looking whether it exists
GenerateAndWrite_NoStat ==
    /\ pc = "loop"
    /\ envIndex <= Len(environments)
    /\ environment' = environments[envIndex]
    /\ IF manifest.Metadata = <<>>
       THEN /\ pc' = "panic"
            /\ UNCHANGED <<err, files, envIndex, templates>>
       ELSE IF generateDryRun
       THEN /\ envIndex' = envIndex + 1
            /\ UNCHANGED <<pc, err, files, templates>>
       ELSE LET env == environments[envIndex]
                outputPath == workflowName(manifest, env)
            IN  /\ templates' = LoadTemplateCache(templates, manifest.Template, 1)
                /\ \E r \in GenerateWorkflow(manifest, env) :
                    IF r.err # <<>>
                    THEN /\ err' = Wrap("failed to generate workflow for", env, r.err)
                         /\ pc' = "done"
                         /\ UNCHANGED <<files, envIndex>>
                    ELSE \/ /\ files' = Stored(files, outputPath, Written(r.doc))
                            /\ envIndex' = envIndex + 1
                            /\ UNCHANGED <<pc, err>>
                         \/ /\ files' \in {files, Stored(files, outputPath, Partial(r.doc))}
                            /\ err' = Wrap("failed to write workflow file", outputPath, Error("write", ""))
                            /\ pc' = "done"
                            /\ UNCHANGED envIndex
    /\ UNCHANGED <<manifest, inputs, tmpl, steps, rendered, applied, prev, doc, ret>>
    /\ UNCHANGED <<calls, generateEnv, generateDryRun, generateOverwrite, environments>>

\* one iteration of the loop of runGenerate.  workflowName reads
\* m.Metadata.Name through the pointer and panics when it is nil.  os.WriteFile
\* can fail before the file is opened (nothing changes) or while writing (the
\* file is left truncated or partly written).
GenerateAndWrite ==
    /\ pc = "loop"
    /\ envIndex <= Len(environments)
    /\ environment' = environments[envIndex]
    /\ IF manifest.Metadata = <<>>
       THEN /\ pc' = "panic"
            /\ UNCHANGED <<err, files, envIndex, templates>>
       ELSE IF generateDryRun
       THEN /\ envIndex' = envIndex + 1
            /\ UNCHANGED <<pc, err, files, templates>>
       ELSE LET env == environments[envIndex]
                outputPath == workflowName(manifest, env)
            IN  /\ templates' = LoadTemplateCache(templates, manifest.Template, 1)
                /\ \E r \in GenerateWorkflow(manifest, env) :
                    IF r.err # <<>>
                    THEN /\ err' = Wrap("failed to generate workflow for", env, r.err)
                         /\ pc' = "done"
                         /\ UNCHANGED <<files, envIndex>>
                    ELSE IF outputPath \in DOMAIN files /\ ~generateOverwrite
                    THEN /\ err' = Error("workflow file already exists", outputPath)
                         /\ pc' = "done"
                         /\ UNCHANGED <<files, envIndex>>
                    ELSE \/ /\ files' = Stored(files, outputPath, Written(r.doc))
                            /\ envIndex' = envIndex + 1
                            /\ UNCHANGED <<pc, err>>
                         \/ /\ files' \in {files, Stored(files, outputPath, Partial(r.doc))}
                            /\ err' = Wrap("failed to write workflow file", outputPath, Error("write", ""))
                            /\ pc' = "done"
                            /\ UNCHANGED envIndex
    /\ UNCHANGED <<manifest, inputs, tmpl, steps, rendered, applied, prev, doc, ret>>
    /\ UNCHANGED <<calls, generateEnv, generateDryRun, generateOverwrite, environments>>

\* the loop is over: return nil
FinishRun ==
    /\ pc = "loop"
    /\ envIndex > Len(environments)
    /\ pc' = "done"
    /\ UNCHANGED <<manifest, environment, inputs, tmpl, steps, rendered, applied, prev, err, doc, ret>>
    /\ UNCHANGED <<templates, calls, generateEnv, generateDryRun, generateOverwrite, environments, envIndex, files>>

NextRun ==
    \/ LoadAndValidate
    \/ GenerateAndWrite
    \/ FinishRun

SpecRun == InitRun /\ [][NextRun]_vars

----------------------------------------------------------------------------
(* Properties of input resolution (SpecResolve) *)

\* what the manifest says, read off its fields
Resolved == pc = "resolved"

BaseInputs == manifest.Inputs

\* the inputs of the selected environment, when it is one the manifest applies
SelectedOverrides ==
    IF environment # "default" /\ environment \in DOMAIN manifest.Environments
    THEN manifest.Environments[environment].Inputs
    ELSE EmptyMap

\* the defaults the catalog holds for the manifest's template
CatalogDefaults ==
    CASE manifest.Template = "node-app" ->
            [k \in DOMAIN NodeAppInputs |-> NodeAppInputs[k].Default]
      [] manifest.Template = "go-service" ->
            [k \in DOMAIN GoServiceInputs |-> GoServiceInputs[k].Default]
      [] manifest.Template = "python-app" ->
            [k \in DOMAIN PythonAppInputs |-> PythonAppInputs[k].Default]
      [] OTHER -> EmptyMap

EventKeys == {"containerBuildOnPR", "containerBuildOnProduction", "containerPushOnProduction"}

\* the flags injection computes for the selected environment
ComputedFlags ==
    CASE environment \in {"default", "staging"} ->
            [k \in {"containerBuildOnPR", "containerPushOnProduction"} |->
                IF k = "containerBuildOnPR" THEN Bool(TRUE) ELSE Bool(FALSE)]
      [] environment = "production" ->
            [k \in EventKeys |-> IF k = "containerBuildOnPR" THEN Bool(FALSE) ELSE Bool(TRUE)]
      [] OTHER -> EmptyMap

\* C1: a key with a template default and a manifest base input resolves to
\* the base value unless the selected environment overrides it; a key with
\* only a template default resolves to the default.
C1_BaseOverridesDefault ==
    Resolved =>
        \A k \in DOMAIN CatalogDefaults :
            k \notin DOMAIN SelectedOverrides =>
                /\ k \in DOMAIN inputs
                /\ inputs[k] = IF k \in DOMAIN BaseInputs THEN BaseInputs[k] ELSE CatalogDefaults[k]

C1_Witness ==
    /\ Resolved
    /\ "testCommand" \in DOMAIN CatalogDefaults
    /\ "testCommand" \in DOMAIN BaseInputs
    /\ "testCommand" \notin DOMAIN SelectedOverrides
    /\ BaseInputs["testCommand"] # CatalogDefaults["testCommand"]
    /\ inputs["testCommand"] = BaseInputs["testCommand"]
    /\ inputs["security"] = CatalogDefaults["security"]

\* C2: for a defined environment other than "default" every key of its inputs
\* resolves to the environment's value and every other base key keeps its base
\* value; resolving for "default" applies no environment's inputs.
C2_EnvironmentOverridesBase ==
    Resolved =>
        /\ (environment # "default" /\ environment \in DOMAIN manifest.Environments) =>
                LET over == manifest.Environments[environment].Inputs
                IN  /\ \A k \in DOMAIN over : k \in DOMAIN inputs /\ inputs[k] = over[k]
                    /\ \A k \in (DOMAIN BaseInputs) \ (DOMAIN over) :
                            k \in DOMAIN inputs /\ inputs[k] = BaseInputs[k]
        /\ environment = "default" =>
                \A k \in DOMAIN inputs :
                    inputs[k] = IF k \in DOMAIN BaseInputs THEN BaseInputs[k]
                                ELSE IF k \in DOMAIN CatalogDefaults THEN CatalogDefaults[k]
                                ELSE Overlay([x \in {k} |-> Nil], ComputedFlags)[k]

C2_Witness ==
    /\ Resolved
    /\ environment = "production"
    /\ environment \in DOMAIN manifest.Environments
    /\ \E k \in DOMAIN manifest.Environments[environment].Inputs :
            /\ k \in DOMAIN BaseInputs
            /\ BaseInputs[k] # manifest.Environments[environment].Inputs[k]
            /\ inputs[k] = manifest.Environments[environment].Inputs[k]
    /\ \E k \in DOMAIN BaseInputs :
            /\ k \notin DOMAIN manifest.Environments[environment].Inputs
            /\ inputs[k] = BaseInputs[k]

\* C3: an event-context key supplied by the template defaults, the base inputs
\* or the selected environment's overrides keeps the supplied value.
C3_InjectionPreservesSupplied ==
    Resolved =>
        \A k \in EventKeys :
            LET supplied == Overlay(Overlay(CatalogDefaults, BaseInputs), SelectedOverrides)
            IN  k \in DOMAIN supplied => (k \in DOMAIN inputs /\ inputs[k] = supplied[k])

C3_Witness ==
    /\ Resolved
    /\ environment = "default"
    /\ "containerBuildOnPR" \in DOMAIN BaseInputs
    /\ BaseInputs["containerBuildOnPR"] = Bool(FALSE)
    /\ inputs["containerBuildOnPR"] = Bool(FALSE)
    /\ inputs["containerPushOnProduction"] = Bool(FALSE)

\* no earlier layer supplies containerBuildOnProduction
C4_NotSupplied ==
    "containerBuildOnProduction" \notin
        (DOMAIN CatalogDefaults) \cup (DOMAIN BaseInputs) \cup (DOMAIN SelectedOverrides)

\* C4 as stated: when no earlier layer supplies it, "default" and "staging"
\* yield containerBuildOnProduction = false and "production" yields true.
C4_Original ==
    (Resolved /\ C4_NotSupplied) =>
        /\ environment \in {"default", "staging"} =>
                /\ "containerBuildOnProduction" \in DOMAIN inputs
                /\ inputs["containerBuildOnProduction"] = Bool(FALSE)
        /\ environment = "production" =>
                /\ "containerBuildOnProduction" \in DOMAIN inputs
                /\ inputs["containerBuildOnProduction"] = Bool(TRUE)

\* C4 amended: when no earlier layer supplies it, "default" and "staging"
\* leave containerBuildOnProduction out of the effective inputs (no value is
\* injected) and "production" yields containerBuildOnProduction = true.
C4_Amended ==
    (Resolved /\ C4_NotSupplied) =>
        /\ environment \in {"default", "staging"} =>
                "containerBuildOnProduction" \notin DOMAIN inputs
        /\ environment = "production" =>
                /\ "containerBuildOnProduction" \in DOMAIN inputs
                /\ inputs["containerBuildOnProduction"] = Bool(TRUE)

C4_Witness ==
    /\ Resolved
    /\ C4_NotSupplied
    /\ environment = "staging"
    /\ "containerBuildOnProduction" \notin DOMAIN inputs
    /\ "containerBuildOnPR" \in DOMAIN inputs

\* C5: getEffectiveInputs returns no error; for a template name outside the
\* catalog the map holds exactly the base inputs, the selected environment's
\* overrides and the injected flags, and no template default.
C5_MissingTemplateStillResolves ==
    Resolved =>
        /\ err = <<>>
        /\ manifest.Template \notin {"node-app", "go-service", "python-app"} =>
                LET supplied == Overlay(BaseInputs, SelectedOverrides)
                IN  /\ DOMAIN inputs = (DOMAIN supplied) \cup (DOMAIN ComputedFlags)
                    /\ \A k \in DOMAIN inputs :
                            inputs[k] = IF k \in DOMAIN supplied THEN supplied[k]
                                        ELSE ComputedFlags[k]

C5_Witness ==
    /\ Resolved
    /\ manifest.Template = "nonexistent-template"
    /\ DOMAIN BaseInputs # {}
    /\ DOMAIN SelectedOverrides # {}
    /\ "testCommand" \notin DOMAIN inputs
    /\ "containerBuildOnPR" \in DOMAIN inputs
    /\ "containerBuildOnPR" \notin (DOMAIN BaseInputs) \cup (DOMAIN SelectedOverrides)

----------------------------------------------------------------------------
(* Properties of the splicer (SpecSplice) *)

\* s starts with p
HasPrefix(s, p) == Len(s) >= Len(p) /\ SubSeq(s, 1, Len(p)) = p

\* s without its first n characters
DropChars(s, n) == SubSeq(s, n + 1, Len(s))

IsBefore(cs) == HasPrefix(cs.Position, <<"b", "e", "f", "o", "r", "e", ":">>)
IsAfter(cs) == HasPrefix(cs.Position, <<"a", "f", "t", "e", "r", ":">>)
IsReplace(cs) == HasPrefix(cs.Position, <<"r", "e", "p", "l", "a", "c", "e", ":">>)
IsAppend(cs) == cs.Position = <<>>

\* the last custom step handed to applyCustomStep, and the step it becomes
Last == applied[Len(applied)]
LastStep == [Name |-> Last.Name, Uses |-> Last.Uses, Run |-> Last.Run, TimeoutMins |-> 0]

\* the last call returned a list
Spliced == pc = "splice" /\ applied # <<>> /\ err = <<>>

\* C7: after custom steps that all succeed, the list holds the initial steps
\* plus one per applied step that is not a replace.
C7_LengthCount ==
    (pc = "splice" /\ err = <<>>) =>
        /\ \A i \in 1..Len(applied) :
                IsBefore(applied[i]) \/ IsAfter(applied[i]) \/ IsAppend(applied[i]) \/ IsReplace(applied[i])
        /\ Len(steps) = rendered + Cardinality({i \in 1..Len(applied) : ~IsReplace(applied[i])})
        /\ applied # <<>> => Len(steps) = Len(prev) + (IF IsReplace(Last) THEN 0 ELSE 1)

C7_Witness ==
    /\ Spliced
    /\ Len(applied) = 2
    /\ IsAfter(applied[1])
    /\ IsReplace(applied[2])
    /\ Len(steps) = rendered + 1

\* C8: a successful before:T (after:T) puts the new step immediately before
\* (after) the step that matched T; the steps present before are unchanged
\* and keep their order.
C8_InsertPlacement ==
    (Spliced /\ (IsBefore(Last) \/ IsAfter(Last))) =>
        LET T == IF IsBefore(Last) THEN DropChars(Last.Position, 7) ELSE DropChars(Last.Position, 6)
        IN  \E i \in 1..Len(prev) :
                /\ matchesStep(prev[i], T)
                /\ Len(steps) = Len(prev) + 1
                /\ IF IsBefore(Last)
                   THEN /\ steps[i] = LastStep
                        /\ steps[i + 1] = prev[i]
                        /\ \A j \in 1..(i - 1) : steps[j] = prev[j]
                        /\ \A j \in i..Len(prev) : steps[j + 1] = prev[j]
                   ELSE /\ steps[i + 1] = LastStep
                        /\ steps[i] = prev[i]
                        /\ \A j \in 1..i : steps[j] = prev[j]
                        /\ \A j \in (i + 1)..Len(prev) : steps[j + 1] = prev[j]

C8_Witness ==
    /\ Spliced
    /\ IsBefore(Last)
    /\ Len(prev) = 3
    /\ steps[2] = LastStep
    /\ steps[3].Name = <<"R", "u", "n", " ", "t", "e", "s", "t", "s">>
    /\ steps[1] = prev[1]
    /\ steps[4] = prev[3]

\* C9: a successful replace:T keeps the length, puts the new step at the
\* matched step's index and leaves every other index as it was.
C9_ReplaceInPlace ==
    (Spliced /\ IsReplace(Last)) =>
        LET T == DropChars(Last.Position, 8)
        IN  /\ Len(steps) = Len(prev)
            /\ \E i \in 1..Len(prev) :
                    /\ matchesStep(prev[i], T)
                    /\ steps[i] = LastStep
                    /\ \A j \in (1..Len(prev)) \ {i} : steps[j] = prev[j]

C9_Witness ==
    /\ Spliced
    /\ IsReplace(Last)
    /\ Len(prev) = 3
    /\ prev[3].Name = <<"B", "u", "i", "l", "d", " ", "a", "p", "p", "l", "i", "c", "a", "t", "i", "o", "n">>
    /\ steps[3] = LastStep
    /\ steps[3] # prev[3]
    /\ \A j \in 1..3 : steps[j].Name # <<"B", "u", "i", "l", "d", " ", "a", "p", "p", "l", "i", "c", "a", "t", "i", "o", "n">>

\* C10: a custom step with an empty position is always applied, and the
\* result is the prior list with the custom step appended, whatever the
\* prior list, the empty one included.
C10_AppendLast ==
    (pc = "splice" /\ applied # <<>> /\ IsAppend(Last)) =>
        /\ err = <<>>
        /\ Len(steps) = Len(prev) + 1
        /\ steps[Len(steps)] = LastStep
        /\ \A j \in 1..Len(prev) : steps[j] = prev[j]

C10_Witness ==
    /\ Spliced
    /\ IsAppend(Last)
    /\ prev = <<>>
    /\ steps = <<LastStep>>

----------------------------------------------------------------------------
(* Errors of the splicer (SpecSplice) *)

\* the position holds no ':'
NoColon(cs) == \A i \in 1..Len(cs.Position) : cs.Position[i] # ":"

\* the index of the first ':' of a position that holds one
FirstColon(cs) ==
    CHOOSE i \in 1..Len(cs.Position) :
        cs.Position[i] = ":" /\ \A j \in 1..(i - 1) : cs.Position[j] # ":"

\* the text before and after the first ':'
DirectiveOf(cs) == SubSeq(cs.Position, 1, FirstColon(cs) - 1)
TokenOf(cs) == DropChars(cs.Position, FirstColon(cs))

\* applyCustomStep has been called and the last call is the one looked at
Called == pc = "splice" /\ applied # <<>>

\* the last call returned the nil list and exactly this error
Failed(msg, arg) == steps = <<>> /\ err = <<[msg |-> msg, arg |-> arg]>>

\* C11: a non-empty position without ':' gives the error "invalid position
\* format" with the position; a before/after/replace directive whose token
\* matches no step of the current list gives "target step not found" followed
\* by the token.
C11_PositionErrors ==
    Called =>
        /\ (Last.Position # <<>> /\ NoColon(Last)) =>
                Failed("invalid position format", Last.Position)
        /\ ((IsBefore(Last) \/ IsAfter(Last) \/ IsReplace(Last))
                /\ \A i \in 1..Len(prev) : ~matchesStep(prev[i], TokenOf(Last))) =>
                Failed("target step not found", TokenOf(Last))

C11_Witness ==
    /\ Called
    /\ Len(applied) = 2
    /\ IsAfter(Last)
    /\ TokenOf(Last) = <<"s", "c", "a", "n">>
    /\ Len(prev) = 3
    /\ Failed("target step not found", <<"s", "c", "a", "n">>)

\* the position has a ':' and its directive is none of before, after, replace
UnknownDirective(cs) ==
    /\ ~NoColon(cs)
    /\ DirectiveOf(cs) \notin {<<"b", "e", "f", "o", "r", "e">>, <<"a", "f", "t", "e", "r">>,
                                <<"r", "e", "p", "l", "a", "c", "e">>}

\* C12 as stated: a directive other than before, after, replace gives an
\* error "invalid position format" that names the directive.
C12_Original ==
    (Called /\ UnknownDirective(Last)) =>
        /\ steps = <<>>
        /\ \E i \in 1..Len(err) :
                /\ err[i].msg = "invalid position format"
                /\ \E a \in 1..Len(err[i].arg) :
                        SubSeq(err[i].arg, a, a + Len(DirectiveOf(Last)) - 1) = DirectiveOf(Last)

\* C12 amended: a directive other than before, after, replace gives the
\* error "unknown position directive" followed by the directive, and no
\* "invalid position format" error.
C12_UnknownDirective ==
    (Called /\ UnknownDirective(Last)) =>
        Failed("unknown position directive", DirectiveOf(Last))

C12_Witness ==
    /\ Called
    /\ Last.Position = <<"d", "u", "r", "i", "n", "g", ":", "t", "e", "s", "t">>
    /\ \E i \in 1..Len(prev) : matchesStep(prev[i], <<"t", "e", "s", "t">>)
    /\ Failed("unknown position directive", <<"d", "u", "r", "i", "n", "g">>)

----------------------------------------------------------------------------
(* Properties of GenerateWorkflow (Spec) *)

\* the template name is unknown, or the effective inputs do not validate
C6_MustAbort ==
    \/ manifest.Template \notin {"node-app", "go-service", "python-app"}
    \/ /\ environment # ""
       /\ ValidateInputs(manifest.Template, getEffectiveInputs(manifest, environment)) # {}

\* C6: with an unknown template or effective inputs that fail validation,
\* GenerateWorkflow returns an error and the empty document and no template
\* step is rendered and no custom step spliced; validation runs on the
\* resolved inputs, and rendering starts only once they validated.
C6_AbortBeforeRendering ==
    /\ C6_MustAbort =>
            /\ rendered = 0 /\ steps = <<>> /\ applied = <<>> /\ doc = <<>>
            /\ pc \notin {"render", "splice", "assemble"}
            /\ pc = "done" => err # <<>>
    /\ pc = "validate" => inputs = getEffectiveInputs(manifest, environment)
    /\ (pc \in {"render", "splice", "assemble"} \/ rendered > 0 \/ doc # <<>>) =>
            /\ inputs = getEffectiveInputs(manifest, environment)
            /\ ValidateInputs(manifest.Template, inputs) = {}

C6_Witness ==
    /\ pc = "done"
    /\ manifest.Template = "go-service"
    /\ environment = "production"
    /\ "testCommand" \notin DOMAIN manifest.Inputs
    /\ inputs["testCommand"] = Bool(FALSE)
    /\ err # <<>>
    /\ err[1].msg = "input validation failed"
    /\ doc = <<>>
    /\ rendered = 0

\* the last custom step handed to applyCustomStep cannot be applied to prev
LastFails ==
    /\ applied # <<>>
    /\ Last.Position # <<>>
    /\ \/ NoColon(Last)
       \/ UnknownDirective(Last)
       \/ \A i \in 1..Len(prev) : ~matchesStep(prev[i], TokenOf(Last))

\* the text after the first ':' of the last position; the position itself
\* when it has no ':'
LastToken == IF NoColon(Last) THEN Last.Position ELSE TokenOf(Last)

\* t occurs in s
Occurs(t, s) == \E a \in 1..(Len(s) - Len(t) + 1) : SubSeq(s, a, a + Len(t) - 1) = t

\* GenerateWorkflow returned an error, no step list and no document, and the
\* error names the custom step that failed
C13_Aborted ==
    /\ pc = "done"
    /\ steps = <<>>
    /\ doc = <<>>
    /\ Len(err) >= 2
    /\ err[Len(err) - 1] = [msg |-> "failed to apply custom step", arg |-> Last.Name]

\* C13 as stated: when applying a custom step fails, no step list and no
\* document are returned, and the error names the failing step and the token.
C13_Original ==
    (pc \in {"splice", "assemble", "done"} /\ LastFails) =>
        /\ C13_Aborted
        /\ Occurs(LastToken, err[Len(err)].arg)

\* C13 amended: when applying a custom step fails, no step list and no
\* document are returned, also after earlier custom steps were applied; the
\* error names the failing step and then the token when no step matches it,
\* the position when it has no ':', and only the directive when the directive
\* is unknown.
C13_FailureAborts ==
    (pc \in {"splice", "assemble", "done"} /\ LastFails) =>
        /\ C13_Aborted
        /\ err[Len(err)] =
                IF NoColon(Last)
                THEN [msg |-> "invalid position format", arg |-> Last.Position]
                ELSE IF UnknownDirective(Last)
                THEN [msg |-> "unknown position directive", arg |-> DirectiveOf(Last)]
                ELSE [msg |-> "target step not found", arg |-> TokenOf(Last)]

C13_Witness ==
    /\ pc = "done"
    /\ Len(applied) = 2
    /\ applied[1].Position = <<>>
    /\ LastFails
    /\ UnknownDirective(Last)
    /\ Len(prev) = rendered + 1
    /\ steps = <<>>
    /\ doc = <<>>
    /\ err[Len(err)].msg = "unknown position directive"

\* the custom steps the manifest declares for the call, in declared order
DeclaredCustomSteps ==
    IF environment # "default" /\ environment \in DOMAIN manifest.Environments
    THEN manifest.CustomSteps \o manifest.Environments[environment].CustomSteps
    ELSE manifest.CustomSteps

\* the custom steps cs applied one after the other, each to the result of
\* the one before
RECURSIVE ApplyInOrder(_, _)
ApplyInOrder(st, cs) ==
    IF cs = <<>> THEN st
    ELSE ApplyInOrder(applyCustomStep(st, Head(cs)).steps, Tail(cs))

----------------------------------------------------------------------------
(* Properties of matchesStep (SpecMatch) *)

\* the call returned; the step's lowercased name and the lowercased target
Matched == pc = "matched"
CalledName == ToLower(steps[1].Name)
CalledTarget == ToLower(ret[1].target)

\* the five names of the alias table
AliasNames ==
    {<<"r", "u", "n", " ", "t", "e", "s", "t", "s">>,
     <<"b", "u", "i", "l", "d", " ", "a", "p", "p", "l", "i", "c", "a", "t", "i", "o", "n">>,
     <<"s", "e", "t", "u", "p", " ", "n", "o", "d", "e", ".", "j", "s">>,
     <<"i", "n", "s", "t", "a", "l", "l", " ", "d", "e", "p", "e", "n", "d", "e", "n", "c", "i", "e", "s">>,
     <<"c", "h", "e", "c", "k", "o", "u", "t", " ", "c", "o", "d", "e">>}

\* C15: for a step whose lowercased name is one of the five alias-table
\* names, matchesStep returns true exactly when the lowercased target is in
\* that name's alias list; the words of the name are not consulted.
C15_AliasOnly ==
    /\ AliasNames = DOMAIN stepMappings
    /\ (Matched /\ CalledName \in AliasNames) =>
            (ret[1].result <=> CalledTarget \in stepMappings[CalledName])

C15_Witness ==
    /\ Matched
    /\ steps[1].Name = <<"R", "u", "n", " ", "t", "e", "s", "t", "s">>
    /\ ret[1].target = <<"r", "u", "n">>
    /\ ret[1].result = FALSE

\* the whitespace-separated words of s
WordsOf(s) ==
    {SubSeq(s, p[1], p[2]) :
        p \in {q \in (1..Len(s)) \X (1..Len(s)) :
                /\ q[1] <= q[2]
                /\ \A k \in q[1]..q[2] : s[k] # " "
                /\ (q[1] = 1 \/ s[q[1] - 1] = " ")
                /\ (q[2] = Len(s) \/ s[q[2] + 1] = " ")}}

\* w without one trailing 's'
Singular(w) == IF w[Len(w)] = "s" THEN SubSeq(w, 1, Len(w) - 1) ELSE w

\* C16: for a step whose name is not in the alias table, matchesStep returns
\* true exactly when some word of the lowercased name, with one trailing 's'
\* removed, equals the lowercased target, or the target has at least 4
\* characters and occurs in such a word.
C16_WordFallback ==
    (Matched /\ CalledName \notin AliasNames) =>
        (ret[1].result <=>
            \E w \in WordsOf(CalledName) :
                \/ Singular(w) = CalledTarget
                \/ (Len(CalledTarget) >= 4 /\ Occurs(CalledTarget, Singular(w))))

C16_Witness ==
    /\ Matched
    /\ steps[1].Name = <<"S", "e", "c", "u", "r", "i", "t", "y", " ", "S", "c", "a", "n", "s">>
    /\ ret[1].target = <<"e", "c", "u", "r">>
    /\ ret[1].result = TRUE

----------------------------------------------------------------------------
(* Properties of getRequiredPermissions (SpecPermissions, Spec) *)

\* the key holds the boolean true
HoldsTrue(key) ==
    /\ key \in DOMAIN inputs
    /\ inputs[key].kind = "bool"
    /\ inputs[key].v = "true"

TrivyEnabledInObject ==
    /\ "security" \in DOMAIN inputs
    /\ inputs["security"] \in {Struct("DefaultSecurityConfig"), FullSecurity}

\* C18: for a go-service manifest whose effective inputs have
\* security.trivy.enabled = true, the generated job's permissions include
\* contents: read and security-events: write.
C18_TrivyObjectPermissions ==
    (pc = "done" /\ doc # <<>> /\ manifest.Template = "go-service" /\ TrivyEnabledInObject) =>
        /\ {"contents", "security-events"} \subseteq DOMAIN doc[1].Permissions
        /\ doc[1].Permissions["contents"] = "read"
        /\ doc[1].Permissions["security-events"] = "write"

----------------------------------------------------------------------------
(* Properties of rendering (Spec) *)

\* the manifest leaves security and container to the template's defaults
ObjectsAtDefaults ==
    /\ {"security", "container"} \cap
            ((DOMAIN manifest.Inputs) \cup (DOMAIN SelectedOverrides)) = {}
    /\ manifest.Template \in {"node-app", "go-service", "python-app"}

\* C20: for a manifest that supplies only valid scalar inputs and leaves
\* security and container at their template defaults, every step of the
\* built-in template is rendered and GenerateWorkflow returns a document
\* without error.
C20_DefaultObjectsRender ==
    (pc = "done" /\ ObjectsAtDefaults /\ ValidateInputs(manifest.Template, inputs) = {}) =>
        /\ rendered = Len(TemplateSteps(manifest.Template))
        /\ DeclaredCustomSteps = <<>> => (err = <<>> /\ doc # <<>>)

----------------------------------------------------------------------------
(* Properties of ValidateInputs (SpecValidate) *)

\* the value has the wrong dynamic type for a definition of this type
NotOfType(value, type) ==
    \/ type = "string" /\ value.kind # "string"
    \/ type = "number" /\ value.kind # "number"
    \/ type = "boolean" /\ value.kind # "bool"
    \/ type = "array" /\ value.kind # "array"

\* the value breaks the definition: wrong type, or outside a non-empty
\* option list
Breaks(value, def) ==
    \/ NotOfType(value, def.Type)
    \/ def.Options # {} /\ value.v \notin def.Options

\* the inputs the template defines that the call's map violates
Violations ==
    {k \in DOMAIN TemplateInputs(tmpl) :
        IF k \in DOMAIN inputs
        THEN Breaks(inputs[k], TemplateInputs(tmpl)[k])
        ELSE TemplateInputs(tmpl)[k].Required}

\* C19: ValidateInputs returns an error, naming an offending input, iff some
\* input the template defines is required and absent, or present with the
\* wrong type, or present with a value outside its non-empty option list;
\* a key the template does not define is never rejected.  ValidateInputValue
\* alone rejects a value iff it has the wrong type for a string, number,
\* boolean or array definition or is outside a non-empty option list.
C19_ValidationErrors ==
    /\ pc = "validated" =>
            /\ err # <<>> <=> Violations # {}
            /\ err # <<>> => (Len(err) = 1 /\ err[1].arg \in Violations)
    /\ pc = "value-validated" =>
            /\ err # <<>> <=> Breaks(ret[1].value, ret[1].def)
            /\ err # <<>> => err[1].arg = ret[1].name

C19_Witness ==
    /\ pc = "validated"
    /\ tmpl = "node-app"
    /\ "nodeVersion" \in DOMAIN inputs
    /\ inputs["nodeVersion"] = Str("99")
    /\ err = <<[msg |-> "must be one of", arg |-> "nodeVersion"]>>

----------------------------------------------------------------------------
(* Properties of concurrent calls (SpecConcurrent) *)

\* call p is about to write tm.templates
WritesTemplates(p) == calls[p].pc = "store"

\* call p is about to read or write tm.templates
AccessesTemplates(p) == calls[p].pc \in {"lookup", "store", "validate"}

\* the manifest's template was in tm.templates before the calls began
Warm ==
    /\ manifest.Template \in DOMAIN templates
    /\ templates[manifest.Template] = 0

----------------------------------------------------------------------------
(* Properties of manifest validation (SpecManifest) *)

Loaded == pc = "loaded"

\* every custom step of the document, base and environment
AllDeclaredSteps ==
    {manifest.CustomSteps[i] : i \in 1..Len(manifest.CustomSteps)} \cup
    UNION {{manifest.Environments[e].CustomSteps[i] : i \in 1..Len(manifest.Environments[e].CustomSteps)}
            : e \in DOMAIN manifest.Environments}

\* the position has a directive before, after or replace and a token of
\* lower-case letters, digits and hyphens
WellFormedPosition(pos) ==
    \E d \in {<<"b", "e", "f", "o", "r", "e", ":">>, <<"a", "f", "t", "e", "r", ":">>,
              <<"r", "e", "p", "l", "a", "c", "e", ":">>} :
        /\ Len(pos) > Len(d)
        /\ SubSeq(pos, 1, Len(d)) = d
        /\ \A j \in (Len(d) + 1)..Len(pos) : pos[j] \in TokenChars

\* the step has a name, one of uses and run, and a timeout in range if any
WellFormedApartFromPosition(cs) ==
    /\ cs.Name # <<>>
    /\ (cs.Uses = "") # (cs.Run = "")
    /\ cs.TimeoutMinutes \in 0..360

\* the header of the document: version, kind and a spec with a template
WellFormedHeader ==
    /\ manifest.APIVersion = "gpgen.dev/v1"
    /\ manifest.Kind = "Pipeline"
    /\ manifest.HasSpec
    /\ manifest.Template # ""

\* the innermost error
Cause == err[Len(err)]

\* C22 as stated: a manifest that is valid when positions may be empty, and
\* that has a custom step with an empty position, passes validation.
C22_Original ==
    ( /\ Loaded
      /\ WellFormedHeader
      /\ manifest.Template \in {"node-app", "go-service"}
      /\ \A cs \in AllDeclaredSteps :
            WellFormedApartFromPosition(cs) /\ (cs.Position = <<>> \/ WellFormedPosition(cs.Position))
      /\ \E cs \in AllDeclaredSteps : cs.Position = <<>> )
    => err = <<>>

\* C22, amended: a manifest with a custom step whose position is empty does
\* not pass LoadManifestFromFile; when the manifest is valid apart from empty
\* positions, the error is "invalid position format" with the empty position.
\* (The append of a step without position is applyCustomStep's, see C10.)
C22_EmptyPositionRejected ==
    (Loaded /\ \E cs \in AllDeclaredSteps : cs.Position = <<>>) =>
        /\ err # <<>>
        /\ ret = <<>>
        /\ ( /\ WellFormedHeader
             /\ manifest.Template \in {"node-app", "go-service"}
             /\ \A cs \in AllDeclaredSteps :
                    WellFormedApartFromPosition(cs) /\ (cs.Position = <<>> \/ WellFormedPosition(cs.Position)) )
           => Cause = [msg |-> "invalid position format", arg |-> <<>>]

\* a go-service manifest whose only flaw is a base custom step without
\* position has been rejected for that
C22_Witness ==
    /\ Loaded
    /\ manifest.Template = "go-service"
    /\ Len(manifest.CustomSteps) = 1
    /\ manifest.CustomSteps[1].Position = <<>>
    /\ WellFormedApartFromPosition(manifest.CustomSteps[1])
    /\ DOMAIN manifest.Environments = {}
    /\ err # <<>>
    /\ Cause.msg = "invalid position format"

\* C23: a manifest that selects a template of the catalog (ListTemplates) and
\* is well-formed otherwise passes LoadManifestFromFile.
C23_ListedTemplatesAccepted ==
    ( /\ Loaded
      /\ WellFormedHeader
      /\ manifest.Template \in ListTemplates
      /\ \A cs \in AllDeclaredSteps :
            WellFormedApartFromPosition(cs) /\ WellFormedPosition(cs.Position) )
    => err = <<>> /\ ret = <<manifest>>

----------------------------------------------------------------------------
(* Properties of the generate command (SpecRun) and of a manifest without *)
(* metadata (Spec)                                                         *)

\* the run has returned the error msg from its loop
RunFailed(msg) == pc = "done" /\ err # <<>> /\ err[1].msg = msg

\* the output paths of the environments the loop has completed, and of the
\* one it is at
EarlierPaths == {workflowName(manifest, environments[j]) : j \in 1..(envIndex - 1)}
FailingPath == workflowName(manifest, environments[envIndex])

\* C24 as stated: when generation or writing has failed for an environment,
\* the output directory holds no file written by the run.
C24_Original ==
    (RunFailed("failed to generate workflow for") \/ RunFailed("failed to write workflow file")) =>
        \A path \in DOMAIN files : files[path].kind = "existing"

\* C24, amended: when the loop of a run returns an error for an environment,
\* the files of the environments processed before it have been written, each
\* with its whole document, and stay; no other file has been touched, except
\* that a failed write can leave the failing environment's own file partly
\* written.
C24_EarlierFilesStay ==
    ( \/ RunFailed("failed to generate workflow for")
      \/ RunFailed("failed to write workflow file")
      \/ RunFailed("workflow file already exists") ) =>
        /\ \A j \in 1..(envIndex - 1) :
                LET path == workflowName(manifest, environments[j])
                IN  /\ path \in DOMAIN files
                    /\ path # FailingPath =>
                            /\ files[path].kind = "workflow"
                            /\ Returned(files[path].doc, <<>>) \in GenerateWorkflow(manifest, environments[j])
        /\ \A path \in DOMAIN files \ EarlierPaths :
                \/ files[path] = Existing
                \/ /\ path = FailingPath
                   /\ files[path].kind = "partial"
                   /\ RunFailed("failed to write workflow file")
        /\ FailingPath \in DOMAIN files /\ files[FailingPath].kind = "partial" =>
                RunFailed("failed to write workflow file")

\* generation has failed for the second environment of a run that wrote the
\* file of the first
C24_Witness ==
    /\ RunFailed("failed to generate workflow for")
    /\ generateEnv = ""
    /\ envIndex = 2
    /\ "test-app.yml" \in DOMAIN files
    /\ files["test-app.yml"].kind = "workflow"

\* the run is at an environment whose workflow can be generated and whose
\* output path holds a file
AtExistingFile ==
    /\ pc = "loop"
    /\ envIndex <= Len(environments)
    /\ manifest.Metadata # <<>>
    /\ ~generateDryRun
    /\ FailingPath \in DOMAIN files
    /\ \E r \in GenerateWorkflow(manifest, environments[envIndex]) : r.err = <<>> /\ ~r.panic

\* C25: without --overwrite no step of a run changes or removes a file that
\* is in the output directory; a run that comes to write a workflow whose
\* output path holds a file returns "... already exists" instead; and in
\* dry-run mode the output directory is not changed at all.
C25_ExistingFilesKept ==
    [][ /\ ~generateOverwrite =>
            \A path \in DOMAIN files : path \in DOMAIN files' /\ files'[path] = files[path]
        /\ generateDryRun => files' = files
        /\ (AtExistingFile /\ ~generateOverwrite) =>
                /\ pc' = "done"
                /\ err' = Error("workflow file already exists", FailingPath) ]_vars

\* a run without --overwrite has stopped at a file that was there before it
C25_Witness ==
    /\ RunFailed("workflow file already exists")
    /\ ~generateOverwrite
    /\ ~generateDryRun
    /\ files[err[1].arg] = Existing

\* C29: in a run without --environment the environments to generate are
\* "default" and the manifest's environments, each once; and the run does not
\* stop with "already exists" at a file it has written itself.
C29_EachEnvironmentOnce ==
    /\ (pc \in {"loop", "done"} /\ generateEnv = "" /\ environments # <<>>) =>
            /\ \A i, j \in 1..Len(environments) : environments[i] = environments[j] => i = j
            /\ {environments[i] : i \in 1..Len(environments)} = {"default"} \cup DOMAIN manifest.Environments
    /\ RunFailed("workflow file already exists") => files[err[1].arg] = Existing

\* C27: a call on a manifest that ParseManifest and ValidateManifest accept
\* ends by returning; it does not panic.
C27_NoCrash ==
    (ParseManifest(manifest) = <<>> /\ ValidateManifest(manifest) = {}) => pc # "panic"

----------------------------------------------------------------------------
(* The step a directive acts on (SpecSplice) *)

\* the token of the last custom step's directive
DirectiveToken ==
    IF IsBefore(Last) THEN DropChars(Last.Position, 7)
    ELSE IF IsAfter(Last) THEN DropChars(Last.Position, 6)
    ELSE DropChars(Last.Position, 8)

\* the list the last call returned is prev with the new step put before,
\* after or in place of the element at index i
ActedOn(i) ==
    IF IsBefore(Last)
    THEN steps = SubSeq(prev, 1, i - 1) \o <<LastStep>> \o SubSeq(prev, i, Len(prev))
    ELSE IF IsAfter(Last)
    THEN steps = SubSeq(prev, 1, i) \o <<LastStep>> \o SubSeq(prev, i + 1, Len(prev))
    ELSE steps = SubSeq(prev, 1, i - 1) \o <<LastStep>> \o SubSeq(prev, i + 1, Len(prev))

\* the step at index i of prev was put there by an earlier custom step
IsCustom(i) ==
    \E k \in 1..(Len(applied) - 1) :
        /\ prev[i].Name = applied[k].Name
        /\ prev[i].Uses = applied[k].Uses
        /\ prev[i].Run = applied[k].Run

\* C26: a successful before, after or replace directive acts on the step of
\* lowest index that matchesStep accepts for its token; when a custom step
\* that matches the token stands ahead of a matching step of the initial
\* list, the directive acts on that custom step or on a step ahead of it.
C26_FirstMatchTargeted ==
    (Spliced /\ (IsBefore(Last) \/ IsAfter(Last) \/ IsReplace(Last))) =>
        \E i \in 1..Len(prev) :
            /\ matchesStep(prev[i], DirectiveToken)
            /\ \A j \in 1..(i - 1) : ~matchesStep(prev[j], DirectiveToken)
            /\ ActedOn(i)
            /\ \A c \in 1..Len(prev) :
                    (IsCustom(c) /\ matchesStep(prev[c], DirectiveToken)) => i <= c

\* "Security Scan" was inserted ahead of "Security Scans", and the later
\* after:scan has put its step after the custom step
C26_Witness ==
    /\ Spliced
    /\ Len(applied) = 2
    /\ applied[1].Name = <<"S", "e", "c", "u", "r", "i", "t", "y", " ", "S", "c", "a", "n">>
    /\ Last.Position = <<"a", "f", "t", "e", "r", ":", "s", "c", "a", "n">>
    /\ Last.Name = <<"L", "i", "n", "t", " ", "C", "o", "d", "e">>
    /\ \E c \in 1..Len(prev) :
            /\ IsCustom(c)
            /\ prev[c].Name = applied[1].Name
            /\ steps[c + 1] = LastStep
            /\ \E t \in (c + 1)..Len(prev) :
                    /\ prev[t].Name = <<"S", "e", "c", "u", "r", "i", "t", "y", " ", "S", "c", "a", "n", "s">>
                    /\ steps[t + 1] = prev[t]
                    /\ t + 2 <= Len(steps) => steps[t + 2] # LastStep

----------------------------------------------------------------------------
(* The list passed to applyCustomStep (SpecSplice) *)

\* the caller's list after the last call
Passed == ret[1]

\* C30: after a call with a before, after or empty directive, and after a
\* call that returned an error, the list passed in has the length and the
\* elements it had; after a successful replace it has its length, the new
\* step at the matched index and its other elements, and is the list returned.
C30_PassedListWrites ==
    (pc = "splice" /\ applied # <<>>) =>
        /\ Len(Passed) = Len(prev)
        /\ IF err = <<>> /\ IsReplace(Last)
           THEN /\ Passed = steps
                /\ \E i \in 1..Len(prev) :
                        /\ matchesStep(prev[i], DropChars(Last.Position, 8))
                        /\ Passed[i] = LastStep
                        /\ \A j \in (1..Len(prev)) \ {i} : Passed[j] = prev[j]
           ELSE Passed = prev

\* a replace has overwritten an element of the list passed in, after an
\* insert that left the list passed to it alone
C30_Witness ==
    /\ Spliced
    /\ Len(applied) = 2
    /\ IsBefore(applied[1])
    /\ IsReplace(Last)
    /\ Passed # prev
    /\ Passed = steps
    /\ Len(prev) = rendered + 1

----------------------------------------------------------------------------
(* Determinism of GenerateWorkflow (Spec) *)

\* the call has ended
Ended == pc \in {"done", "panic"}

\* what the call has ended with
Outcome == [doc |-> doc, err |-> err, panic |-> pc = "panic"]

\* C28 as stated: what a call has ended with is the only result
\* GenerateWorkflow can end with for that manifest and environment.
C28_Original ==
    Ended => GenerateWorkflow(manifest, environment) = {Outcome}

\* C28, amended: every run for the same manifest and environment agrees on
\* whether it returns a document, on the document, and on every error other
\* than "input validation failed"; a validation error names whichever
\* invalid input was met first in the iteration of the template's inputs
\* map, and can differ between runs in that cause alone.
C28_SameUpToCause ==
    Ended =>
        \A r \in GenerateWorkflow(manifest, environment) :
            /\ r.doc = doc
            /\ r.panic = (pc = "panic")
            /\ Len(r.err) = Len(err)
            /\ \A k \in 1..(Len(err) - 1) : r.err[k] = err[k]
            /\ r.err # err =>
                    /\ err[1].msg = "input validation failed"
                    /\ Len(err) = 2

\* a call has failed on one of several invalid inputs
C28_Witness ==
    /\ pc = "done"
    /\ err # <<>>
    /\ err[1].msg = "input validation failed"
    /\ Cardinality(GenerateWorkflow(manifest, environment)) >= 2

====
